---- MODULE Spec2Model ----
(***************************************************************************)
(* DiTing job orchestration: the Task Registry (app/core/task_manager.py), *)
(* the ASR routing client (app/asr/client.py), the media cache service     *)
(* (app/services/media_cache.py, app/db/media_cache_entries.py) and the    *)
(* transcription pipeline (app/services/transcription/pipeline.py).        *)
(*                                                                         *)
(* Each component has its own next-state relation and specification; the   *)
(* variables of the other components are left unchanged by it.             *)
(***************************************************************************)
EXTENDS Integers, Sequences, FiniteSets, TLC

(***************************************************************************)
(* Bounds of the model.                                                    *)
(***************************************************************************)
\* TaskManager.MAX_HISTORY is 20 in task_manager.py:11.  The registry is
\* modelled parametrically in the capacity and checked with a small one;
\* every property below is stated in terms of MAX_HISTORY, not of its value.
MAX_HISTORY == 2

\* Job ids the callers hand to the registry: one more than the history
\* holds, so that the FIFO overflows.
TaskIds == 1 .. (MAX_HISTORY + 1)

\* Values the pipeline passes to update_progress (pipeline.py:74,122,170).
ProgressInputs == {50}

VARIABLES
    tasks,          \* TaskManager.tasks: dict id -> record
    finished_ids,   \* TaskManager._finished_ids: deque of finished ids
    finish_log,     \* history: ids in the order of their first finish_task
    reused,         \* history: a finished id was registered again or removed
    asr_config,     \* ASRClient.config: priority, strict_mode, active_engine,
                    \*   disabled_engines
    availability,   \* ASRClient.availability: engine -> bool
    asr_call,       \* the last select_worker call: its argument and outcome
    now,            \* wall clock, in hours (datetime.now())
    entries,        \* table media_cache_entries: (source_id, quality) -> row
    files,          \* regular files of MEDIA_CACHE_DIR: path -> size
    video_meta,     \* table video_meta: source_id -> cache_policy,
                    \*   cache_expires_at
    retention,      \* system config media_retention_policy
    capacity,       \* system config media_cache_capacity_gb
    mc_call,        \* the last media cache call: its arguments and outcome
    pl,             \* pipeline runs: transcription id -> locals, options,
                    \*   row status and text, history of the run
    downloads,      \* history: number of downloader calls
    retry,          \* one call of a function under retry_on_network_error:
                    \*   its errors so far, the sleeps, and how it ended
    race,           \* one call of _run_asr_with_cancel: the transcription
                    \*   task, the monitor task, and how the call ended
    proc,           \* one call of run_cancellable_process: the subprocess,
                    \*   the signals sent to it, the time, how the call ended
    fills,          \* two cache_file calls for one key: position, temp file
    sweep,          \* one full run_gc in a pool thread: position, the paths
                    \*   read from the table, the directory listing
    worker          \* ASR worker process: _queue_depth, _gpu_semaphore,
                    \*   the /transcribe requests in flight

tmVars == <<tasks, finished_ids, finish_log, reused>>

asrVars == <<asr_config, availability, asr_call>>

mcVars == <<now, entries, files, video_meta, retention, capacity, mc_call>>

vars == <<tasks, finished_ids, finish_log, reused,
          asr_config, availability, asr_call,
          now, entries, files, video_meta, retention, capacity, mc_call,
          pl, downloads, retry, race, proc, fills, sweep, worker>>

plVars == <<pl, downloads>>

callVars == <<retry, race, proc, fills, sweep, worker>>

\* what an operation of one component leaves alone
besidesTasks == <<asrVars, mcVars, plVars, callVars>>

besidesASR == <<tmVars, mcVars, plVars, callVars>>

besidesCache == <<tmVars, asrVars, plVars, callVars>>

besidesRetry == <<tmVars, asrVars, mcVars, plVars, race, proc, fills, sweep, worker>>

(***************************************************************************)
(* Task Registry: app/core/task_manager.py                                 *)
(***************************************************************************)
\* dict helpers: d[k] = v and d.pop(k, None)
Put(d, k, v) == [i \in (DOMAIN d) \cup {k} |-> IF i = k THEN v ELSE d[i]]
Pop(d, k) == [i \in (DOMAIN d) \ {k} |-> d[i]]

\* deque.remove(x): removes the first occurrence, keeps the rest in order
RECURSIVE RemoveFirst(_, _)
RemoveFirst(s, x) ==
    IF s = <<>> THEN <<>>
    ELSE IF Head(s) = x THEN Tail(s)
    ELSE <<Head(s)>> \o RemoveFirst(Tail(s), x)

SeqRange(s) == {s[i] : i \in 1 .. Len(s)}

\* the record start_task stores (message, start_time and meta carry no
\* behaviour and are left out)
NewTask == [status |-> "processing", progress |-> 0, cancel_event |-> FALSE]

\* what get_task_status answers for an id without a record
NotFound == [status |-> "None"]

get_task_status(id) == IF id \in DOMAIN tasks THEN tasks[id] ELSE NotFound

Registered(id) == id \in DOMAIN tasks

is_cancelled(id) == id \in DOMAIN tasks /\ tasks[id].cancel_event

check_cancel(id) == IF is_cancelled(id) THEN "TaskCancelledException" ELSE "None"

\* finish_task's eviction with the loop bound off by one
RECURSIVE EvictOffByOne(_, _)
EvictOffByOne(t, f) ==
    IF Len(f) > MAX_HISTORY + 1
    THEN EvictOffByOne(Pop(t, Head(f)), Tail(f))
    ELSE <<t, f>>

\* the eviction loop of finish_task: while len(_finished_ids) > MAX_HISTORY
RECURSIVE Evict(_, _)
Evict(t, f) ==
    IF Len(f) > MAX_HISTORY
    THEN Evict(Pop(t, Head(f)), Tail(f))
    ELSE <<t, f>>

start_task(id) ==
    /\ tasks' = Put(tasks, id, NewTask)
    /\ UNCHANGED finished_ids

update_progress(id, p) ==
    /\ tasks' = IF id \in DOMAIN tasks
                THEN [tasks EXCEPT ![id].progress = p]
                ELSE tasks
    /\ UNCHANGED finished_ids

\* what cancel_task(id) returns in the current state
cancel_task_ret(id) == id \in DOMAIN tasks

\* cancel_task that signals every registered job
cancel_every_task(id) ==
    /\ tasks' = IF id \in DOMAIN tasks
                THEN [i \in DOMAIN tasks |->
                        [tasks[i] EXCEPT !.cancel_event = TRUE,
                                         !.status = "cancelling"]]
                ELSE tasks
    /\ UNCHANGED finished_ids

cancel_task(id) ==
    /\ tasks' = IF id \in DOMAIN tasks
                THEN [tasks EXCEPT ![id].cancel_event = TRUE,
                                   ![id].status = "cancelling"]
                ELSE tasks
    /\ UNCHANGED finished_ids

FinishedRecord(r) ==
    IF r.status \notin {"cancelled", "failed"}
    THEN [r EXCEPT !.status = "completed", !.progress = 100]
    ELSE r

finish_task(id) ==
    IF id \in DOMAIN tasks
    THEN LET marked == [tasks EXCEPT ![id] = FinishedRecord(tasks[id])]
             after == Evict(marked, Append(finished_ids, id))
         IN /\ tasks' = after[1]
            /\ finished_ids' = after[2]
    ELSE UNCHANGED <<tasks, finished_ids>>

remove_task(id) ==
    /\ tasks' = Pop(tasks, id)
    /\ finished_ids' = RemoveFirst(finished_ids, id)

InitTasks ==
    /\ tasks = << >>
    /\ finished_ids = << >>
    /\ finish_log = << >>
    /\ reused = FALSE

\* The registry under every interleaving of its five mutators.
StartTask ==
    /\ \E id \in TaskIds : start_task(id)
    /\ UNCHANGED <<finish_log, reused, besidesTasks>>

UpdateProgress ==
    /\ \E id \in TaskIds, p \in ProgressInputs : update_progress(id, p)
    /\ UNCHANGED <<finish_log, reused, besidesTasks>>

CancelTask ==
    /\ \E id \in TaskIds : cancel_task(id)
    /\ UNCHANGED <<finish_log, reused, besidesTasks>>

FinishTask ==
    /\ \E id \in TaskIds : finish_task(id)
    /\ UNCHANGED <<finish_log, reused, besidesTasks>>

RemoveTask ==
    /\ \E id \in TaskIds : remove_task(id)
    /\ UNCHANGED <<finish_log, reused, besidesTasks>>

NextTasks ==
    \/ StartTask
    \/ UpdateProgress
    \/ CancelTask
    \/ FinishTask
    \/ RemoveTask

\* The registry with the history of its finish_task calls written down:
\* finish_log is the order in which ids were first finished, reused says
\* whether a finished id was registered again or an id was taken out of the
\* FIFO by remove_task.  update_progress touches neither the FIFO nor the set
\* of records and is left out of this relation.
LoggedStart(id) ==
    /\ start_task(id)
    /\ reused' = (reused \/ id \in SeqRange(finish_log))
    /\ UNCHANGED <<finish_log, besidesTasks>>

LoggedCancel(id) ==
    /\ cancel_task(id)
    /\ UNCHANGED <<finish_log, reused, besidesTasks>>

LoggedFinish(id) ==
    /\ finish_task(id)
    /\ finish_log' = IF id \in DOMAIN tasks /\ id \notin SeqRange(finish_log)
                     THEN Append(finish_log, id)
                     ELSE finish_log
    /\ UNCHANGED <<reused, besidesTasks>>

LoggedRemove(id) ==
    /\ remove_task(id)
    /\ reused' = (reused \/ id \in SeqRange(finished_ids))
    /\ UNCHANGED <<finish_log, besidesTasks>>

NextHistory ==
    \/ \E id \in TaskIds : LoggedStart(id)
    \/ \E id \in TaskIds : LoggedCancel(id)
    \/ \E id \in TaskIds : LoggedFinish(id)
    \/ \E id \in TaskIds : LoggedRemove(id)

(***************************************************************************)
(* ASR routing client: app/asr/client.py                                   *)
(***************************************************************************)
\* settings.ASR_WORKERS, in dict order (app/core/config.py:46-50)
Workers == <<"sensevoice", "whisper", "qwen3asr">>

WorkerSet == SeqRange(Workers)

Cloud == "bailian"

Engines == WorkerSet \cup {Cloud}

\* Python's None for an engine name
NoEngine == "None"

\* the RuntimeErrors select_worker raises
ErrOffline == "RuntimeError: Engine is offline."
ErrStrict == "RuntimeError: Strict Mode: Active engine is offline."
ErrNoEngine == "RuntimeError: No available ASR engines"

\* asr_priority values a previous process left in the config store
\* (NoEngine: nothing saved)
SavedPriorities == {<<NoEngine>>, <<"whisper", "bailian">>}

\* asr_active_engine values left in the config store
SavedActive == {NoEngine, "qwen3asr"}

\* priority lists a caller posts to /config
PriorityInputs ==
    { <<"whisper", "sensevoice", "qwen3asr", "bailian">>,
      <<"bailian", "unknown", "qwen3asr">> }

\* disabled-engine lists a caller posts to /config
DisabledInputs == SUBSET Engines

NoCall == [pref |-> NoEngine, result |-> "idle"]

\* self.availability.get(engine, False)
Avail(e) == IF e \in DOMAIN availability THEN availability[e] ELSE FALSE

\* [e for e in s if keep(e)], for keep = membership in a set
RECURSIVE FilterIn(_, _)
FilterIn(s, keep) ==
    IF s = <<>> THEN <<>>
    ELSE IF Head(s) \in keep
         THEN <<Head(s)>> \o FilterIn(Tail(s), keep)
         ELSE FilterIn(Tail(s), keep)

\* for w in ws: if w not in s: s.append(w)
RECURSIVE AppendMissing(_, _)
AppendMissing(s, ws) ==
    IF ws = <<>> THEN s
    ELSE AppendMissing(IF Head(ws) \in SeqRange(s) THEN s
                       ELSE Append(s, Head(ws)), Tail(ws))

\* update_config's normalisation of a posted priority list
ValidPriority(priority) ==
    AppendMissing(FilterIn(priority, Engines), Append(Workers, Cloud))

check_availability(e) == IF Avail(e) THEN e ELSE ErrOffline

\* the priority scan with the exception for the active engine left out
RECURSIVE ScanSkipsActiveToo(_, _, _)
ScanSkipsActiveToo(prio, disabled, active) ==
    IF prio = <<>> THEN NoEngine
    ELSE IF Head(prio) \in disabled
         THEN ScanSkipsActiveToo(Tail(prio), disabled, active)
    ELSE IF Avail(Head(prio)) THEN Head(prio)
    ELSE ScanSkipsActiveToo(Tail(prio), disabled, active)

\* for e in config["priority"]: skip disabled unless active; first available
RECURSIVE ScanPriority(_, _, _)
ScanPriority(prio, disabled, active) ==
    IF prio = <<>> THEN NoEngine
    ELSE IF Head(prio) \in disabled /\ Head(prio) # active
         THEN ScanPriority(Tail(prio), disabled, active)
    ELSE IF Avail(Head(prio)) THEN Head(prio)
    ELSE ScanPriority(Tail(prio), disabled, active)

\* select_worker with the strict-mode branch falling through to the scan
SelectIgnoresStrict(preferred_engine) ==
    LET active == asr_config.active_engine
        found == ScanPriority(asr_config.priority,
                              asr_config.disabled_engines, active)
    IN IF preferred_engine # NoEngine
       THEN check_availability(preferred_engine)
       ELSE IF found # NoEngine THEN found
       ELSE IF active # NoEngine /\ Avail(active) THEN active
       ELSE ErrNoEngine

\* select_worker with the override subject to strict mode and the disabled
\* list
SelectOverrideChecked(preferred_engine) ==
    LET active == asr_config.active_engine
        found == ScanPriority(asr_config.priority,
                              asr_config.disabled_engines, active)
    IN IF asr_config.strict_mode /\ active # NoEngine
       THEN (IF check_availability(active) = ErrOffline
             THEN ErrStrict ELSE active)
       ELSE IF preferred_engine # NoEngine
               /\ preferred_engine \notin asr_config.disabled_engines
       THEN check_availability(preferred_engine)
       ELSE IF found # NoEngine THEN found
       ELSE IF active # NoEngine /\ Avail(active) THEN active
       ELSE ErrNoEngine

select_worker(preferred_engine) ==
    LET strict == asr_config.strict_mode
        active == asr_config.active_engine
        found == ScanPriority(asr_config.priority,
                              asr_config.disabled_engines, active)
    IN IF preferred_engine # NoEngine
       THEN check_availability(preferred_engine)
       ELSE IF strict /\ active # NoEngine
       THEN (IF check_availability(active) = ErrOffline
             THEN ErrStrict ELSE active)
       ELSE IF found # NoEngine THEN found
       ELSE IF active # NoEngine /\ Avail(active) THEN active
       ELSE ErrNoEngine

\* ASRClient.__init__: defaults, then the saved config, then the default
\* active engine; _init_state: workers offline, the cloud engine available
InitASR ==
    /\ \E sp \in SavedPriorities, sa \in SavedActive :
         LET prio == IF sp = <<NoEngine>> THEN Append(Workers, Cloud) ELSE sp
         IN asr_config =
              [priority |-> prio,
               strict_mode |-> FALSE,
               active_engine |-> IF sa = NoEngine /\ prio # <<>>
                                 THEN prio[1] ELSE sa,
               disabled_engines |-> {}]
    /\ availability = [e \in Engines |-> e = Cloud]
    /\ asr_call = NoCall

\* the client of a fresh installation: nothing saved in the config store
FreshASR ==
    /\ asr_config = [priority |-> Append(Workers, Cloud),
                     strict_mode |-> FALSE,
                     active_engine |-> Workers[1],
                     disabled_engines |-> {}]
    /\ availability = [e \in Engines |-> e = Cloud]
    /\ asr_call = NoCall

\* one pass of check_health: every worker answers /health or does not
CheckHealth ==
    /\ \E up \in SUBSET WorkerSet :
         availability' = [e \in DOMAIN availability |->
                            IF e \in WorkerSet THEN e \in up
                            ELSE availability[e]]
    /\ asr_call' = NoCall
    /\ UNCHANGED <<asr_config, besidesASR>>

\* update_config with one of its optional arguments given
UpdatePriority ==
    /\ \E p \in PriorityInputs :
         asr_config' = [asr_config EXCEPT !.priority = ValidPriority(p)]
    /\ asr_call' = NoCall
    /\ UNCHANGED <<availability, besidesASR>>

UpdateStrict ==
    /\ \E b \in BOOLEAN :
         asr_config' = [asr_config EXCEPT !.strict_mode = b]
    /\ asr_call' = NoCall
    /\ UNCHANGED <<availability, besidesASR>>

UpdateActive ==
    /\ \E e \in Engines \cup {"unknown"} :
         asr_config' = IF e \in WorkerSet \/ e = Cloud
                       THEN [asr_config EXCEPT !.active_engine = e]
                       ELSE asr_config
    /\ asr_call' = NoCall
    /\ UNCHANGED <<availability, besidesASR>>

UpdateDisabled ==
    /\ \E d \in DisabledInputs :
         asr_config' = [asr_config EXCEPT !.disabled_engines = d]
    /\ asr_call' = NoCall
    /\ UNCHANGED <<availability, besidesASR>>

\* a caller (pipeline.py:158, client.py:303) asks for an engine
SelectWorker ==
    /\ \E pref \in Engines \cup {NoEngine} :
         asr_call' = [pref |-> pref, result |-> select_worker(pref)]
    /\ UNCHANGED <<asr_config, availability, besidesASR>>

NextASR ==
    \/ CheckHealth
    \/ UpdatePriority
    \/ UpdateStrict
    \/ UpdateActive
    \/ UpdateDisabled
    \/ SelectWorker

(***************************************************************************)
(* Media cache: app/services/media_cache.py, app/db/media_cache_entries.py *)
(***************************************************************************)
\* timedelta(days=1), in the hours the clock counts
HoursPerDay == 24

\* the last day the clock reaches
MaxDay == 3

\* the hours of the day at which the clock is read
ClockHours == <<8, 9>>

Sources == {"s1", "s2", "s3"}

Qualities == {"audio_only", "best"}

\* extensions of the files a downloader leaves in the temp directory
Exts == {"m4a", "webm"}

\* file sizes, in the unit the capacity budget is given in (GiB)
Sizes == {1, 2}

\* a file of the temp directory handed to cache_file
TempFiles == [ext : Exts, size : Sizes]

\* SQL NULL / Python None for a policy, an expiry and a path
NullPolicy == "NULL"
NoExpiry == [t |-> 0, sep |-> "NULL"]
NoPath == <<>>
NoEntry == [media_path |-> NoPath]

\* a source without a video_meta row joins as NULLs (LEFT JOIN)
NoMeta == [cache_policy |-> NullPolicy, cache_expires_at |-> NoExpiry]

NoOp == [op |-> "idle"]

\* a file in the cache directory that no cache_file call put there
StrayPath == <<"stray", "", "part">>

Day(t) == t \div HoursPerDay

Hour(t) == t % HoursPerDay

\* SQLite's  column < ?  between a stored text timestamp and a Python
\* datetime parameter.  sqlite3 binds the datetime as isoformat(" "),
\* 'YYYY-MM-DD HH:MM:SS.ffffff', and the comparison is bytewise: the dates
\* first, then the separator ('T' sorts after ' '), then the time of day; a
\* stored stamp without fraction is a proper prefix of a parameter of the same
\* second and sorts before it.
TextLess(stamp, t) ==
    \/ Day(stamp.t) < Day(t)
    \/ /\ Day(stamp.t) = Day(t)
       /\ stamp.sep = " "
       /\ Hour(stamp.t) <= Hour(t)

\* datetime.fromisoformat(expires_at) < datetime.now(): both separators parse
ParsedLess(stamp, t) == stamp.t <= t

\* datetime.now().strftime("%Y-%m-%d %H:%M:%S")
Strftime(t) == [t |-> t, sep |-> " "]

Restrict(d, keep) == [k \in keep |-> d[k]]

\* get_retention_policy: (policy, days) parsed from the stored string
get_retention_policy == retention

should_keep == get_retention_policy.name # "delete_after_asr"

\* f"{source_hash}_{quality}{ext}" or f"{source_hash}{ext}" under
\* data/media_cache; md5 is taken as injective on the sources
QualitySuffix(quality) == IF quality # "best" THEN quality ELSE ""

TargetPath(source, quality, ext) == <<source, QualitySuffix(quality), ext>>

\* files of the cache directory named after (source, quality)
Artifacts(source, quality) ==
    {p \in DOMAIN files : p[1] = source /\ p[2] = QualitySuffix(quality)}

HasRow(source, quality) == <<source, quality>> \in DOMAIN entries

RowOf(source, quality) ==
    IF HasRow(source, quality) THEN entries[<<source, quality>>] ELSE NoEntry

OnDisk(path) == path \in DOMAIN files

\* the lookup without os.path.exists
find_row_path(source, quality) == RowOf(source, quality).media_path

\* find_existing_cache(source, quality) with a quality given
find_existing_cache(source, quality) ==
    IF HasRow(source, quality) /\ OnDisk(RowOf(source, quality).media_path)
    THEN RowOf(source, quality).media_path
    ELSE NoPath

upsert_cache_entry(source, quality, media_path, file_size) ==
    Put(entries, <<source, quality>>,
        [media_path |-> media_path, file_size |-> file_size,
         cached_at |-> Strftime(now)])

\* _reset_expired_policy
reset_expired_policy(source) ==
    LET meta == video_meta[source]
    IN IF /\ meta.cache_policy = "custom"
          /\ meta.cache_expires_at # NoExpiry
          /\ ParsedLess(meta.cache_expires_at, now)
       THEN [video_meta EXCEPT ![source] = NoMeta]
       ELSE video_meta

\* cache_file(temp_path, id, source, quality) for an existing temp file and
\* a source: the temp file is dropped when the target exists, moved otherwise
cache_file(temp, source, quality) ==
    LET target == TargetPath(source, quality, temp.ext)
        moved == IF OnDisk(target) THEN files ELSE Put(files, target, temp.size)
    IN /\ files' = moved
       /\ entries' = upsert_cache_entry(source, quality, target, moved[target])
       /\ video_meta' = reset_expired_policy(source)

CacheFile(temp, source, quality) ==
    /\ cache_file(temp, source, quality)
    /\ mc_call' = [op |-> "cache_file", source |-> source, quality |-> quality,
                   temp |-> temp,
                   ret |-> TargetPath(source, quality, temp.ext),
                   temp_moved |-> ~OnDisk(TargetPath(source, quality, temp.ext)),
                   before |-> RowOf(source, quality),
                   had_file |-> find_existing_cache(source, quality) # NoPath]
    /\ UNCHANGED <<now, retention, capacity, besidesCache>>

(***************************************************************************)
(* Retention: get_gc_candidates and run_gc                                 *)
(***************************************************************************)
PolicyOf(k) == video_meta[k[1]].cache_policy

\* (vm.cache_policy = 'custom' AND vm.cache_expires_at < now)
CustomExpired(k) ==
    /\ PolicyOf(k) = "custom"
    /\ video_meta[k[1]].cache_expires_at # NoExpiry
    /\ TextLess(video_meta[k[1]].cache_expires_at, now)

\* the global clause with the cutoff of delete_after_asr at the reading of
\* the clock itself
GlobalExpiredAtOnce(k) ==
    /\ PolicyOf(k) = NullPolicy
    /\ \/ /\ get_retention_policy.name = "keep_days"
          /\ get_retention_policy.days > 0
          /\ TextLess(entries[k].cached_at,
                      now - get_retention_policy.days * HoursPerDay)
       \/ /\ get_retention_policy.name = "delete_after_asr"
          /\ TextLess(entries[k].cached_at, now)

\* (vm.cache_policy IS NULL AND e.cached_at < cutoff), the cutoff
\* following the global policy
GlobalExpired(k) ==
    /\ PolicyOf(k) = NullPolicy
    /\ \/ /\ get_retention_policy.name = "keep_days"
          /\ get_retention_policy.days > 0
          /\ TextLess(entries[k].cached_at,
                      now - get_retention_policy.days * HoursPerDay)
       \/ /\ get_retention_policy.name = "delete_after_asr"
          /\ TextLess(entries[k].cached_at, now - 1)

get_gc_candidates ==
    {k \in DOMAIN entries :
        /\ PolicyOf(k) # "keep_forever"
        /\ (CustomExpired(k) \/ GlobalExpired(k))}

PathsOf(e) == {e[k].media_path : k \in DOMAIN e}

RECURSIVE SumSizes(_, _)
SumSizes(e, ks) ==
    IF ks = {} THEN 0
    ELSE LET k == CHOOSE x \in ks : TRUE
         IN e[k].file_size + SumSizes(e, ks \ {k})

\* get_cache_stats()['total_size']: SUM(file_size)
TotalSize(e) == SumSizes(e, DOMAIN e)

\* pass 1 without the test on target_source_ids
ExpiredPassAll(full, targets) ==
    [e |-> Restrict(entries, (DOMAIN entries) \ get_gc_candidates),
     f |-> Restrict(files, (DOMAIN files) \
                           {entries[k].media_path : k \in get_gc_candidates})]

\* pass 1: rows of the candidates (of the targets, when given) and their
\* files are deleted
ExpiredPass(full, targets) ==
    LET del == {k \in get_gc_candidates : full \/ k[1] \in targets}
    IN [e |-> Restrict(entries, (DOMAIN entries) \ del),
        f |-> Restrict(files, (DOMAIN files) \ {entries[k].media_path : k \in del})]

\* pass 2 that deletes nothing
OrphanPassKeepsAll(s) == s

\* pass 2: files of the cache directory no row points to are deleted
OrphanPass(s) ==
    [e |-> s.e, f |-> Restrict(s.f, (DOMAIN s.f) \cap PathsOf(s.e))]

\* the capacity query with the keep_forever filter left out
EvictableAny(e) == DOMAIN e

\* WHERE (vm.cache_policy IS NOT 'keep_forever' OR vm.cache_policy IS NULL)
Evictable(e) == {k \in DOMAIN e : PolicyOf(k) # "keep_forever"}

\* the capacity query without its ORDER BY
AnyOrders(e) ==
    {o \in [1 .. Cardinality(Evictable(e)) -> Evictable(e)] :
        \A i, j \in DOMAIN o : i # j => o[i] # o[j]}

\* ORDER BY e.cached_at ASC: the orders SQLite may return the rows in
\* (rows of the same second come in either order)
EvictOrders(e) ==
    {o \in [1 .. Cardinality(Evictable(e)) -> Evictable(e)] :
        /\ \A i, j \in DOMAIN o : i # j => o[i] # o[j]
        /\ \A i, j \in DOMAIN o : i < j => e[o[i]].cached_at.t <= e[o[j]].cached_at.t}

\* the eviction loop: stop once enough bytes were freed; a row is deleted
\* before its file is looked at, and only a file found on disk counts
RECURSIVE EvictLoop(_, _, _, _)
EvictLoop(order, freed, bytes_to_free, s) ==
    IF order = <<>> \/ freed >= bytes_to_free THEN s
    ELSE LET k == Head(order)
             p == s.e[k].media_path
         IN EvictLoop(Tail(order),
                      IF p \in DOMAIN s.f THEN freed + s.f[p] ELSE freed,
                      bytes_to_free,
                      [e |-> Pop(s.e, k), f |-> Pop(s.f, p)])

OverCapacity(e) == capacity > 0 /\ TotalSize(e) > capacity

\* pass 3
CapacityPass(s, order) ==
    IF OverCapacity(s.e)
    THEN EvictLoop(order, 0, TotalSize(s.e) - capacity, s)
    ELSE s

\* run_gc(target_source_ids): full when no targets are given
RunGc(full, targets) ==
    LET s1 == ExpiredPass(full, targets)
        s2 == IF full THEN OrphanPass(s1) ELSE s1
    IN \E order \in EvictOrders(s2.e) :
         LET s3 == IF full THEN CapacityPass(s2, order) ELSE s2
         IN /\ entries' = s3.e
            /\ files' = s3.f
            /\ mc_call' = [op |-> "run_gc", full |-> full, targets |-> targets,
                           expired |-> (DOMAIN entries) \ (DOMAIN s1.e),
                           orphans |-> (DOMAIN s1.f) \ (DOMAIN s2.f),
                           over |-> full /\ OverCapacity(s2.e),
                           evicted |-> {[key |-> k,
                                         cached_at |-> entries[k].cached_at] :
                                          k \in (DOMAIN s2.e) \ (DOMAIN s3.e)}]
            /\ UNCHANGED <<now, video_meta, retention, capacity, besidesCache>>

(***************************************************************************)
(* Integrity: scan_integrity, delete_db_orphans, sync_integrity            *)
(***************************************************************************)
DbOrphans == {k \in DOMAIN entries : ~OnDisk(entries[k].media_path)}

FsOrphans(e) == (DOMAIN files) \ PathsOf(e)

scan_integrity == [db_orphans |-> DbOrphans, fs_orphans |-> FsOrphans(entries)]

\* delete_db_orphans that deletes no row
KeepDbOrphans == entries

\* delete_db_orphans(None)
delete_db_orphans == Restrict(entries, (DOMAIN entries) \ scan_integrity.db_orphans)

ScanIntegrity ==
    /\ mc_call' = [op |-> "scan_integrity",
                   db_orphans |-> scan_integrity.db_orphans,
                   fs_orphans |-> scan_integrity.fs_orphans]
    /\ UNCHANGED <<now, entries, files, video_meta, retention, capacity,
                   besidesCache>>

\* delete_fs_orphans that deletes no file
KeepFsOrphans(e) == files

\* delete_fs_orphans(None) on the rows e: the files a scan of e reports
\* under fs_orphans are removed
delete_fs_orphans(e) == Restrict(files, (DOMAIN files) \ FsOrphans(e))

\* sync_integrity(delete_orphans): the rows first, then a second scan
SyncIntegrity(delete_orphans) ==
    /\ entries' = delete_db_orphans
    /\ files' = IF delete_orphans
                THEN delete_fs_orphans(delete_db_orphans)
                ELSE files
    /\ mc_call' = [op |-> "sync_integrity", delete_orphans |-> delete_orphans,
                   db_cleaned |-> Cardinality(DbOrphans),
                   orphans_found |-> Cardinality(FsOrphans(delete_db_orphans)),
                   fs_cleaned |-> IF delete_orphans
                                  THEN Cardinality(FsOrphans(delete_db_orphans))
                                  ELSE 0,
                   reported |-> IF mc_call.op = "scan_integrity"
                                THEN mc_call.db_orphans ELSE {}]
    /\ UNCHANGED <<now, video_meta, retention, capacity, besidesCache>>

(***************************************************************************)
(* The environment of the cache: files, settings, time                     *)
(***************************************************************************)
\* a cached file is deleted from disk outside the service
ExternalDelete ==
    /\ \E p \in DOMAIN files : files' = Pop(files, p)
    /\ mc_call' = NoOp
    /\ UNCHANGED <<now, entries, video_meta, retention, capacity, besidesCache>>

\* a file appears in the cache directory outside the service
ExternalDrop ==
    /\ ~OnDisk(StrayPath)
    /\ files' = Put(files, StrayPath, 1)
    /\ mc_call' = NoOp
    /\ UNCHANGED <<now, entries, video_meta, retention, capacity, besidesCache>>

\* PATCH /videos/{source_id}/cache-policy -> upsert_video_meta: the expiry
\* is stored as the body gives it
SetCachePolicy(source, policy, expires) ==
    /\ video_meta' =
         [video_meta EXCEPT ![source] =
            IF policy = NullPolicy THEN NoMeta
            ELSE [cache_policy |-> policy,
                  cache_expires_at |-> IF expires # NoExpiry THEN expires
                                       ELSE @.cache_expires_at]]
    /\ mc_call' = NoOp
    /\ UNCHANGED <<now, entries, files, retention, capacity, besidesCache>>

\* PUT /media_retention: policy
SetRetention(r) ==
    /\ retention' = r
    /\ mc_call' = NoOp
    /\ UNCHANGED <<now, entries, files, video_meta, capacity, besidesCache>>

\* PUT /media_retention: capacity_gb
SetCapacity(c) ==
    /\ capacity' = c
    /\ mc_call' = NoOp
    /\ UNCHANGED <<now, entries, files, video_meta, retention, besidesCache>>

\* time passes to the next reading of the clock
Tick ==
    /\ Day(now) < MaxDay \/ Hour(now) = ClockHours[1]
    /\ now' = IF Hour(now) = ClockHours[1]
              THEN now + (ClockHours[2] - ClockHours[1])
              ELSE now + HoursPerDay - (ClockHours[2] - ClockHours[1])
    /\ mc_call' = NoOp
    /\ UNCHANGED <<entries, files, video_meta, retention, capacity, besidesCache>>

\* a new installation at clock reading t: empty tables, empty cache
\* directory, default settings
InitCacheAt(t) ==
    /\ now = t
    /\ entries = <<>>
    /\ files = <<>>
    /\ video_meta = [s \in Sources |-> NoMeta]
    /\ retention = [name |-> "keep_days", days |-> 3]
    /\ capacity = 0
    /\ mc_call = NoOp

InitCache == InitCacheAt(ClockHours[1])

\* expiry stamps a caller sends: an ISO string with 'T' or with a space
ExpiryInputs ==
    { [t |-> ClockHours[1], sep |-> "T"],
      [t |-> ClockHours[1], sep |-> " "] }

PolicyInputs == {"keep_forever", "custom", NullPolicy}

RetentionInputs ==
    { [name |-> "keep_days", days |-> 3],
      [name |-> "delete_after_asr", days |-> 0],
      [name |-> "always_keep", days |-> 0] }

\* the cache of one source under repeated caching, outside deletions and
\* integrity runs
NextStore ==
    \/ \E temp \in TempFiles, q \in Qualities : CacheFile(temp, "s1", q)
    \/ ExternalDelete
    \/ ExternalDrop
    \/ ScanIntegrity
    \/ \E b \in BOOLEAN : SyncIntegrity(b)

\* the cache of two sources as time passes: one under the per-source
\* policies, both under the global policy
NextExpiry ==
    \/ \E s \in {"s1", "s2"} :
         CacheFile([ext |-> "m4a", size |-> 1], s, "audio_only")
    \/ \E p \in PolicyInputs, x \in ExpiryInputs \cup {NoExpiry} :
         SetCachePolicy("s1", p, x)
    \/ \E r \in RetentionInputs \cup {[name |-> "keep_days", days |-> 0]} :
         SetRetention(r)
    \/ Tick
    \/ \E full \in BOOLEAN : RunGc(full, {"s1"})

\* the cache of three sources of one GiB each under a capacity budget of two:
\* the last readings of the clock, per-source policy keep_forever or none
NextGC ==
    \/ \E s \in Sources :
         CacheFile([ext |-> "m4a", size |-> 1], s, "audio_only")
    \/ \E s \in {"s1", "s2"}, p \in {"keep_forever", NullPolicy} :
         SetCachePolicy(s, p, NoExpiry)
    \/ SetRetention([name |-> "delete_after_asr", days |-> 0])
    \/ SetCapacity(2)
    \/ ExternalDelete
    \/ ExternalDrop
    \/ Tick
    \/ \E full \in BOOLEAN : RunGc(full, {"s1"})

(***************************************************************************)
(* Transcription pipeline: app/services/transcription/pipeline.py          *)
(***************************************************************************)
\* transcription ids handed to run_transcription_pipeline
JobIds == {1, 2}

\* the id _trigger_auto_analysis registers its task under
AnalysisTask == 3

\* source_key of a run (the source of its transcription row)
SourceOf(j) == "s1"

\* the file a downloader leaves in the temp directory
DownloadedFiles == {[ext |-> "m4a", size |-> 1]}

\* the vocal track separate_vocals leaves in the temp directory
VocalTrack == [ext |-> "wav", size |-> 1]

\* what the subtitle hooks of Bilibili and YouTube pass to update_progress
\* before they look for subtitles
HookProgress == 5

\* the arguments of a run: use_uvr, pre_asr_hook given, only_get_subtitles,
\* auto_analyze_prompt given, and the downloader (remote: one that transfers
\* the media and checks for cancellation, Bilibili, YouTube, Douyin; else
\* the one that hands back a file already on disk)
RunOptions ==
    [use_uvr : BOOLEAN, has_hook : BOOLEAN, only_get_subtitles : BOOLEAN,
     auto_analyze : BOOLEAN, remote : BOOLEAN]

\* a run that was not started: its position, its arguments, its locals, the
\* files it holds in the temp directories, the status, text and is_subtitle
\* columns of its transcription row, and the history of the run (did it use
\* the cache and at which path, did it call the downloader, which runs had
\* ended when it began, the retention policy its cleanup read, the stages
\* where a checkpoint saw the cancellation, the stages that raised another
\* error)
IdleJob ==
    [pc |-> "idle", opts |-> [use_uvr |-> FALSE, has_hook |-> FALSE,
                              only_get_subtitles |-> FALSE,
                              auto_analyze |-> FALSE, remote |-> TRUE],
     audio_path |-> [kind |-> "none"], using_cache |-> FALSE,
     is_temp_derived |-> FALSE, temps |-> {},
     status |-> "pending", text |-> "none", is_subtitle |-> FALSE,
     from_cache |-> FALSE, hit |-> NoPath, downloaded |-> FALSE,
     began_after |-> {}, policy |-> NullPolicy, observed |-> {}, errors |-> {}]

\* the registry operations on a (tasks, finished_ids) pair, for the calls the
\* pipeline makes between two suspension points
Started(r, id) == <<Put(r[1], id, NewTask), r[2]>>

Progressed(r, id, p) ==
    <<IF id \in DOMAIN r[1] THEN [r[1] EXCEPT ![id].progress = p] ELSE r[1],
      r[2]>>

Finished(r, id) ==
    IF id \in DOMAIN r[1]
    THEN Evict([r[1] EXCEPT ![id] = FinishedRecord(r[1][id])], Append(r[2], id))
    ELSE r

Cancelled(r, id) == id \in DOMAIN r[1] /\ r[1][id].cancel_event

\* get_best_cache_path(source, 'transcription')
TranscriptionPriorities == <<"audio_only", "worst", "medium", "best", "video">>

NoHit == [path |-> NoPath, quality |-> "None"]

RECURSIVE FirstOnDisk(_, _)
FirstOnDisk(source, priorities) ==
    IF priorities = <<>> THEN NoHit
    ELSE IF find_existing_cache(source, Head(priorities)) # NoPath
         THEN [path |-> RowOf(source, Head(priorities)).media_path,
               quality |-> Head(priorities)]
         ELSE FirstOnDisk(source, Tail(priorities))

\* ORDER BY cached_at DESC LIMIT 1: rows of the same second come in either
\* order
LatestRows(source) ==
    {k \in DOMAIN entries :
        /\ k[1] = source
        /\ \A m \in DOMAIN entries :
              m[1] = source => entries[m].cached_at.t <= entries[k].cached_at.t}

\* the answers get_best_cache_path may give
get_best_cache_path(source, priorities) ==
    IF FirstOnDisk(source, priorities) # NoHit
    THEN {FirstOnDisk(source, priorities)}
    ELSE IF LatestRows(source) = {} THEN {NoHit}
    ELSE {IF OnDisk(entries[k].media_path)
          THEN [path |-> entries[k].media_path, quality |-> k[2]]
          ELSE NoHit : k \in LatestRows(source)}

\* assign_cache(transcription_id, relative_path, quality)
assign_cache(source, relative_path, quality) ==
    /\ entries' = upsert_cache_entry(source, quality, relative_path,
                     IF OnDisk(relative_path) THEN files[relative_path] ELSE 0)
    /\ UNCHANGED <<files, video_meta>>

\* cleanup_or_delete that deletes the file whatever the policy
cleanup_deletes(audio_path, source, quality) ==
    UNCHANGED <<entries, files, video_meta>>

\* cleanup_or_delete(temp_path, id, source, quality): nothing without a
\* file; cache_file when the policy keeps media, os.remove otherwise
cleanup_or_delete(audio_path, source, quality) ==
    IF audio_path.kind \in {"temp", "vocals"} /\ should_keep
    THEN cache_file(audio_path.file, source, quality)
    ELSE UNCHANGED <<entries, files, video_meta>>

\* the finally block that hands whatever audio_path names to
\* cleanup_or_delete, a derived file included
CleanupCachesDerived(j, job) ==
    IF ~job.using_cache
    THEN cleanup_or_delete(job.audio_path, SourceOf(j), "audio_only")
    ELSE UNCHANGED <<entries, files, video_meta>>

\* the finally block on the cache: the file a derived audio_path names is
\* removed (a file of the cache directory when separate_vocals handed the
\* cached file back), a cache hit is not touched, a downloaded file goes to
\* cleanup_or_delete
Cleanup(j, job) ==
    IF job.is_temp_derived
    THEN /\ files' = IF job.audio_path.kind = "cache"
                     THEN Pop(files, job.audio_path.path) ELSE files
         /\ UNCHANGED <<entries, video_meta>>
    ELSE IF ~job.using_cache
    THEN cleanup_or_delete(job.audio_path, SourceOf(j), "audio_only")
    ELSE UNCHANGED <<entries, files, video_meta>>

\* the finally block that leaves the files of the run where they are
FinallySkipped(job) ==
    [job EXCEPT !.pc = "done", !.policy = get_retention_policy.name]

\* the finally block on the run: the derived file is removed from the temp
\* directory, or else the download is moved to the cache or removed
Finally(job) ==
    [job EXCEPT !.pc = "done", !.policy = get_retention_policy.name,
                !.temps = IF job.is_temp_derived THEN @ \ {"vocals"}
                          ELSE IF ~job.using_cache THEN @ \ {"download"}
                          ELSE @]

\* the run ends: status and text are written, finish_task, finally
Leave(j, job, reg, status, text) ==
    [job |-> Finally([job EXCEPT !.status = status, !.text = text]),
     reg |-> Finished(reg, j)]

\* an exception reaches the except blocks of the run
Raise(j, job, reg, exc) ==
    IF exc = "TaskCancelledException"
    THEN Leave(j, job, reg, "cancelled", "Task Cancelled")
    ELSE Leave(j, job, reg, "failed", "Error")

\* the run suspends at an await
Park(job, reg, pc) == [job |-> [job EXCEPT !.pc = pc], reg |-> reg]

\* check_cancel, then 4. ASR: update_progress and the ASR call
ToAsr(j, job, reg, val) ==
    IF Cancelled(reg, j)
    THEN Raise(j, [job EXCEPT !.observed = @ \cup {"before_asr"}], reg,
               "TaskCancelledException")
    ELSE Park(job, Progressed(reg, j, val), "asr")

\* the stages after the download with a cache hit ending the run at once
ProceedSkipsOnHit(j, job, reg) ==
    IF job.using_cache THEN Leave(j, job, reg, "completed", job.text)
    ELSE IF job.opts.use_uvr
    THEN Park(job, Progressed(reg, j, 30), "uvr")
    ELSE ToAsr(j, job, reg, 30)

\* from check_cancel after the download to the next await
Proceed(j, job, reg) ==
    IF Cancelled(reg, j)
    THEN Raise(j, [job EXCEPT !.observed = @ \cup {"after_download"}], reg,
               "TaskCancelledException")
    ELSE IF job.opts.use_uvr
    THEN Park(job, Progressed(reg, j, 30), "uvr")
    ELSE ToAsr(j, job, reg, 30)

\* 1.6 and 2 with the subtitles-only test left out
DownloadAnyway(j, job, reg) ==
    Park([job EXCEPT !.downloaded = TRUE], Progressed(reg, j, 0), "download")

\* 1.6 and 2: the subtitles-only raise, or the downloader is called
ToDownload(j, job, reg) ==
    IF job.opts.only_get_subtitles
    THEN Raise(j, [job EXCEPT !.errors = @ \cup {"subtitles_only"}], reg,
               "Exception")
    ELSE Park([job EXCEPT !.downloaded = TRUE], Progressed(reg, j, 0), "download")

\* the effect of one step of run j on the run, the registry and the count of
\* downloader calls
Effect(j, c) ==
    /\ pl' = [pl EXCEPT ![j] = c.job]
    /\ tasks' = c.reg[1]
    /\ finished_ids' = c.reg[2]
    /\ downloads' = IF c.job.downloaded /\ ~pl[j].downloaded
                    THEN downloads + 1 ELSE downloads
    /\ mc_call' = NoOp
    /\ UNCHANGED <<finish_log, reused, now, retention, capacity, asrVars, callVars>>

\* a step that ends the run cleans up; one that suspends leaves the cache
Settle(j, c) ==
    /\ Effect(j, c)
    /\ IF c.job.pc = "done" THEN Cleanup(j, c.job)
       ELSE UNCHANGED <<entries, files, video_meta>>

\* 0 and 1: start_task, the cache check, and on to the first await (of a
\* hook after its update_progress)
Begin(j, opts) ==
    /\ pl[j].pc = "idle"
    /\ \E hit \in get_best_cache_path(SourceOf(j), TranscriptionPriorities) :
         LET reg == Started(<<tasks, finished_ids>>, j)
             job == [IdleJob EXCEPT !.opts = opts,
                                    !.status = "processing",
                                    !.began_after = {i \in JobIds : pl[i].pc = "done"}]
         IN IF hit.path # NoPath /\ OnDisk(hit.path)
            THEN LET cached == [job EXCEPT !.audio_path = [kind |-> "cache",
                                                           path |-> hit.path],
                                           !.using_cache = TRUE,
                                           !.from_cache = TRUE,
                                           !.hit = hit.path]
                     reg30 == Progressed(reg, j, 30)
                 IN /\ Effect(j, IF opts.only_get_subtitles
                                 THEN Raise(j, [cached EXCEPT !.errors =
                                                   @ \cup {"subtitles_only"}],
                                            reg30, "Exception")
                                 ELSE Proceed(j, cached, reg30))
                    /\ assign_cache(SourceOf(j), hit.path, hit.quality)
            ELSE Settle(j, IF opts.has_hook
                           THEN Park(job, Progressed(reg, j, HookProgress), "hook")
                           ELSE ToDownload(j, job, reg))

\* 1.5: the pre-ASR hook returns subtitles, returns nothing, or raises (the
\* exception is logged and the run goes on); subtitles are persisted, the
\* row is completed, finish_task, and the run returns unless auto-analysis
\* was asked for
HookReturns(j, outcome) ==
    /\ pl[j].pc = "hook"
    /\ LET reg == <<tasks, finished_ids>>
           sub == [pl[j] EXCEPT !.text = "Subtitle", !.is_subtitle = TRUE,
                                !.status = "completed"]
       IN Settle(j, IF outcome = "subtitles"
                    THEN (IF pl[j].opts.auto_analyze
                          THEN Park(sub, Finished(reg, j), "hook_analysis")
                          ELSE [job |-> Finally(sub), reg |-> Finished(reg, j)])
                    ELSE IF outcome = "error"
                    THEN ToDownload(j, [pl[j] EXCEPT !.errors = @ \cup {"hook"}], reg)
                    ELSE ToDownload(j, pl[j], reg))

\* the downloader that starts the transfer without looking at the signal
TransferAnyway(j) ==
    /\ pl[j].pc = "download"
    /\ pl[j].opts.remote
    /\ Settle(j, Park(pl[j], <<tasks, finished_ids>>, "transfer"))

\* 2: a remote downloader begins in its thread: check_cancel_func, then the
\* transfer
DownloadChecks(j) ==
    /\ pl[j].pc = "download"
    /\ pl[j].opts.remote
    /\ LET reg == <<tasks, finished_ids>>
       IN Settle(j, IF Cancelled(reg, j)
                    THEN Raise(j, [pl[j] EXCEPT !.observed = @ \cup {"download"}],
                               reg, "TaskCancelledException")
                    ELSE Park(pl[j], reg, "transfer"))

\* 2: the downloader returns a file or raises (a remote one after its
\* transfer, where a progress hook may see the cancellation)
DownloadReturns(j, outcome) ==
    /\ pl[j].pc = IF pl[j].opts.remote THEN "transfer" ELSE "download"
    /\ outcome = "cancelled" =>
          pl[j].opts.remote /\ Cancelled(<<tasks, finished_ids>>, j)
    /\ \E file \in DownloadedFiles :
         LET reg == <<tasks, finished_ids>>
         IN Settle(j, IF outcome = "cancelled"
                      THEN Raise(j, [pl[j] EXCEPT !.observed = @ \cup {"download"}],
                                 reg, "TaskCancelledException")
                      ELSE IF outcome = "error"
                      THEN Raise(j, [pl[j] EXCEPT !.errors = @ \cup {"download"}],
                                 reg, "Exception")
                      ELSE Proceed(j, [pl[j] EXCEPT
                                          !.audio_path = [kind |-> "temp",
                                                          file |-> file],
                                          !.temps = @ \cup {"download"}],
                                   reg))

\* what the run holds once the vocals are separated: the download is
\* removed unless it is the cached file
WithVocals(job) ==
    [job EXCEPT !.audio_path = [kind |-> "vocals", file |-> VocalTrack],
                !.temps = (IF job.using_cache THEN @ ELSE @ \ {"download"})
                          \cup {"vocals"},
                !.is_temp_derived = TRUE,
                !.using_cache = FALSE]

\* what the run holds once separate_vocals handed its input back (no
\* audio-separator installed, or the separation failed): the path exists, so
\* the download is removed unless it is the cached file, and audio_path, the
\* same path, counts as derived
WithInput(job) ==
    [job EXCEPT !.audio_path = IF job.using_cache THEN @ ELSE [kind |-> "removed"],
                !.temps = IF job.using_cache THEN @ ELSE @ \ {"download"},
                !.is_temp_derived = TRUE,
                !.using_cache = FALSE]

\* 3: the vocal separation is terminated on cancellation, raises, returns
\* a vocal track, its input or nothing; then check_cancel and on to ASR
UvrReturns(j, outcome) ==
    /\ pl[j].pc = "uvr"
    /\ outcome = "cancelled" => Cancelled(<<tasks, finished_ids>>, j)
    /\ LET reg == <<tasks, finished_ids>>
       IN Settle(j, IF outcome = "cancelled"
                    THEN Raise(j, [pl[j] EXCEPT !.observed = @ \cup {"uvr"}],
                               reg, "TaskCancelledException")
                    ELSE IF outcome = "error"
                    THEN Raise(j, [pl[j] EXCEPT !.errors = @ \cup {"uvr"}],
                               reg, "Exception")
                    ELSE ToAsr(j, IF outcome = "vocals" THEN WithVocals(pl[j])
                                  ELSE IF outcome = "input" THEN WithInput(pl[j])
                                  ELSE pl[j],
                               reg, 50))

\* 4 and 5: asyncio.wait returns with the transcription done (a text or an
\* error), the cancel monitor done, or both; the monitor is looked at
\* first: the transcription is cancelled and awaited, and the await raises
\* the error of one that had failed; a text (of a file that is still there)
\* is persisted and the row completed, then auto-analysis if asked for, else
\* finish_task
AsrReturns(j, result, monitor_done) ==
    /\ pl[j].pc = "asr"
    /\ result = "pending" => monitor_done
    /\ result = "text" => pl[j].audio_path.kind # "removed"
    /\ monitor_done => Cancelled(<<tasks, finished_ids>>, j)
    /\ LET reg == <<tasks, finished_ids>>
           seen == [pl[j] EXCEPT
                      !.observed = IF monitor_done THEN @ \cup {"asr"} ELSE @,
                      !.errors = IF result = "error" THEN @ \cup {"asr"} ELSE @]
           done == [seen EXCEPT !.text = "asr", !.status = "completed"]
       IN Settle(j, IF monitor_done /\ result # "error"
                    THEN Raise(j, seen, reg, "TaskCancelledException")
                    ELSE IF result = "error"
                    THEN Raise(j, seen, reg, "Exception")
                    ELSE IF pl[j].opts.auto_analyze
                    THEN Park(done, Progressed(reg, j, 95), "analysis")
                    ELSE Leave(j, done, Progressed(reg, j, 95), "completed", "asr"))

\* _trigger_auto_analysis registers its task, or raises: after the hook the
\* exception is caught with the hook's and the run goes on to the download;
\* after ASR it reaches the except blocks
AnalysisReturns(j, outcome) ==
    /\ pl[j].pc \in {"hook_analysis", "analysis"}
    /\ LET reg == <<tasks, finished_ids>>
           started == Started(reg, AnalysisTask)
       IN Settle(j, IF pl[j].pc = "hook_analysis"
                    THEN (IF outcome = "started"
                          THEN [job |-> Finally(pl[j]), reg |-> started]
                          ELSE ToDownload(j, [pl[j] EXCEPT !.errors = @ \cup {"hook"}],
                                          reg))
                    ELSE (IF outcome = "started"
                          THEN Leave(j, pl[j], started, pl[j].status, pl[j].text)
                          ELSE Raise(j, [pl[j] EXCEPT !.errors = @ \cup {"analysis"}],
                                     reg, "Exception")))

\* POST /tasks/{id}/cancel while runs are in flight
CancelRun ==
    /\ \E j \in JobIds : cancel_task(j)
    /\ UNCHANGED <<finish_log, reused, besidesTasks>>

InitPipeline ==
    /\ pl = [j \in JobIds |-> IdleJob]
    /\ downloads = 0

\* two runs for one source with a remote downloader
NextPipeline ==
    \/ \E j \in JobIds, u, h \in BOOLEAN :
         Begin(j, [use_uvr |-> u, has_hook |-> h, only_get_subtitles |-> FALSE,
                   auto_analyze |-> FALSE, remote |-> TRUE])
    \/ \E j \in JobIds, outcome \in {"subtitles", "none", "error"} :
         HookReturns(j, outcome)
    \/ \E j \in JobIds : DownloadChecks(j)
    \/ \E j \in JobIds, outcome \in {"file", "error", "cancelled"} :
         DownloadReturns(j, outcome)
    \/ \E j \in JobIds, outcome \in {"vocals", "input", "none", "error", "cancelled"} :
         UvrReturns(j, outcome)
    \/ \E j \in JobIds, result \in {"text", "error", "pending"}, m \in BOOLEAN :
         AsrReturns(j, result, m)
    \/ CancelRun
    \/ \E r \in {r \in RetentionInputs : r.name # "always_keep"} : SetRetention(r)

\* one run under every combination of its arguments
NextRun ==
    \/ \E opts \in RunOptions : Begin(1, opts)
    \/ \E outcome \in {"subtitles", "none", "error"} : HookReturns(1, outcome)
    \/ DownloadChecks(1)
    \/ \E outcome \in {"file", "error", "cancelled"} : DownloadReturns(1, outcome)
    \/ \E outcome \in {"vocals", "input", "none", "error", "cancelled"} :
         UvrReturns(1, outcome)
    \/ \E result \in {"text", "error", "pending"}, m \in BOOLEAN :
         AsrReturns(1, result, m)
    \/ \E outcome \in {"started", "error"} : AnalysisReturns(1, outcome)
    \/ CancelRun
    \/ \E r \in RetentionInputs : SetRetention(r)

(***************************************************************************)
(* Download retry: app/downloaders/_utils.py                               *)
(***************************************************************************)
\* retry_on_network_error(max_retries=3, retry_delay=5), as every downloader
\* applies it
MAX_RETRIES == 3

RETRY_DELAY == 5

NETWORK_KEYWORDS == {"timeout", "connection", "network", "timed out", "urlopen"}

\* the exceptions a wrapped function raises: the type, and which of these
\* words str(e).lower() contains
ErrorInputs ==
    [type : {"Exception", "TaskCancelledException"},
     words : {{"timeout"}, {"connection"}, {"network"}, {"timed out"},
              {"urlopen"}, {"http error 404"}, {"cancelled"},
              {"connection", "cancelled"}}]

\* check_and_reraise_cancel(e): does it re-raise
check_and_reraise_cancel(e) ==
    "cancelled" \in e.words \/ e.type = "TaskCancelledException"

\* is_network = any(kw in error_str for kw in NETWORK_KEYWORDS)
is_network(e) == e.words \cap NETWORK_KEYWORDS # {}

\* the wrapper with the network test left out of the retry condition
AfterErrorAlwaysRetry(call, e) ==
    LET attempt == Len(call.errors)
        seen == [call EXCEPT !.errors = Append(@, e)]
    IN IF check_and_reraise_cancel(e) THEN [seen EXCEPT !.ended = "raised"]
       ELSE IF attempt < MAX_RETRIES - 1
       THEN [seen EXCEPT !.slept = @ + RETRY_DELAY * (2 ^ attempt)]
       ELSE [seen EXCEPT !.ended = "returned None"]

\* the except block of the wrapper's loop, for attempt number
\* Len(call.errors): re-raise a cancellation; sleep and go round again on a
\* network error before the last attempt; return None otherwise
AfterError(call, e) ==
    LET attempt == Len(call.errors)
        seen == [call EXCEPT !.errors = Append(@, e)]
    IN IF check_and_reraise_cancel(e) THEN [seen EXCEPT !.ended = "raised"]
       ELSE IF is_network(e) /\ attempt < MAX_RETRIES - 1
       THEN [seen EXCEPT !.slept = @ + RETRY_DELAY * (2 ^ attempt)]
       ELSE [seen EXCEPT !.ended = "returned None"]

\* one round of the loop: func returns
AttemptReturns ==
    /\ retry.ended = "running"
    /\ Len(retry.errors) < MAX_RETRIES
    /\ retry' = [retry EXCEPT !.ended = "returned"]
    /\ UNCHANGED besidesRetry

\* one round of the loop: func raises
AttemptRaises ==
    /\ retry.ended = "running"
    /\ Len(retry.errors) < MAX_RETRIES
    /\ \E e \in ErrorInputs : retry' = AfterError(retry, e)
    /\ UNCHANGED besidesRetry

\* the wrapped function is called again
CallWrapper ==
    /\ retry.ended # "running"
    /\ retry' = [errors |-> <<>>, slept |-> 0, ended |-> "running"]
    /\ UNCHANGED besidesRetry

\* a call of the wrapper before its first attempt
InitRetry == retry = [errors |-> <<>>, slept |-> 0, ended |-> "running"]

NextRetry == AttemptReturns \/ AttemptRaises \/ CallWrapper

(***************************************************************************)
(* _run_asr_with_cancel and wait_for_cancel: pipeline.py, task_manager.py  *)
(***************************************************************************)
\* the job whose calls are followed step by step
CallJob == 1

besidesRace == <<asrVars, mcVars, plVars, retry, proc, fills, sweep, worker>>

IdleRace ==
    [pc |-> "idle", transcribe |-> "none", monitor |-> "none",
     first |-> "none", out |-> "none"]

\* the transcription task and the monitor task are created and asyncio.wait
\* is awaited; the run has passed check_cancel with its record registered
RunAsrWithCancel ==
    /\ race.pc = "idle"
    /\ Registered(CallJob) /\ ~is_cancelled(CallJob)
    /\ race' = [race EXCEPT !.pc = "waiting", !.transcribe = "running",
                            !.monitor = "polling"]
    /\ UNCHANGED <<tmVars, besidesRace>>

\* asr_client.transcribe returns a text or raises
TranscribeEnds(outcome) ==
    /\ race.pc = "waiting"
    /\ race.transcribe = "running"
    /\ race' = [race EXCEPT !.transcribe = outcome,
                            !.first = IF @ = "none" THEN "transcribe" ELSE @]
    /\ UNCHANGED <<tmVars, besidesRace>>

\* wait_for_cancel wakes up: it returns when is_cancelled, else sleeps again
MonitorPolls ==
    /\ race.pc = "waiting"
    /\ race.monitor = "polling"
    /\ race' = IF is_cancelled(CallJob)
               THEN [race EXCEPT !.monitor = "returned",
                                 !.first = IF @ = "none" THEN "monitor" ELSE @]
               ELSE race
    /\ UNCHANGED <<tmVars, besidesRace>>

\* asyncio.wait hands back the tasks that are done.  With the monitor done
\* and the signal set, the transcription is cancelled and awaited (the await
\* of one that had failed raises its error) and TaskCancelledException is
\* raised; else the monitor is cancelled and the result of the transcription
\* is taken, which raises InvalidStateError for one that is not done
WaitReturns ==
    /\ race.pc = "waiting"
    /\ race.transcribe # "running" \/ race.monitor = "returned"
    /\ race' = IF race.monitor = "returned" /\ is_cancelled(CallJob)
               THEN [race EXCEPT
                       !.pc = "returned",
                       !.transcribe = IF @ = "running" THEN "cancelled" ELSE @,
                       !.out = IF race.transcribe = "error" THEN "error"
                               ELSE "TaskCancelledException"]
               ELSE [race EXCEPT
                       !.pc = "returned",
                       !.monitor = IF @ = "polling" THEN "cancelled" ELSE @,
                       !.out = IF race.transcribe = "running"
                               THEN "InvalidStateError" ELSE race.transcribe]
    /\ UNCHANGED <<tmVars, besidesRace>>

\* one call of _run_asr_with_cancel for a job while the registry is used
NextRace ==
    \/ RunAsrWithCancel
    \/ \E outcome \in {"text", "error"} : TranscribeEnds(outcome)
    \/ MonitorPolls
    \/ WaitReturns
    \/ StartTask
    \/ CancelTask
    \/ FinishTask
    \/ RemoveTask

(***************************************************************************)
(* run_cancellable_process: app/utils/process_utils.py                     *)
(***************************************************************************)
\* asyncio.sleep(0.5) and p.join(timeout=2), in polling intervals
POLL_INTERVAL == 1

JOIN_TIMEOUT == 4

\* polls after which a subprocess has ended or the job was cancelled
MaxPolls == 3

besidesProcess == <<asrVars, mcVars, plVars, retry, race, fills, sweep, worker>>

\* no call yet: no subprocess, no signal sent to one, time 0, and no
\* cancellation seen while a subprocess ran (signal_at -1)
IdleProcess ==
    [pc |-> "idle", p |-> "none", sent |-> <<>>, out |-> "none",
     t |-> 0, signal_at |-> -1]

\* p.start() and the first pass of the loop: the subprocess is alive and
\* the job, checked by the caller just before, is not cancelled
RunCancellableProcess ==
    /\ proc.pc = "idle"
    /\ Registered(CallJob) /\ ~is_cancelled(CallJob)
    /\ proc' = [proc EXCEPT !.pc = "sleep", !.p = "alive"]
    /\ UNCHANGED <<tmVars, besidesProcess>>

\* the subprocess ends by itself while the caller sleeps: with a path or
\* None in the queue, with an error in the queue, or without a word
ProcessExits(how) ==
    /\ proc.pc = "sleep"
    /\ proc.p = "alive"
    /\ proc' = [proc EXCEPT !.p = how]
    /\ UNCHANGED <<tmVars, besidesProcess>>

\* the poll that neither waits for the grace period nor kills
PollTerminateOnly ==
    /\ proc.pc = "sleep"
    /\ LET woke == [proc EXCEPT !.t = @ + POLL_INTERVAL]
       IN IF proc.p # "alive"
          THEN proc' = [woke EXCEPT !.pc = "ended",
                                    !.out = IF proc.p \in {"error", "crash"}
                                            THEN "Exception" ELSE proc.p]
          ELSE IF is_cancelled(CallJob)
          THEN \E obeys \in BOOLEAN :
                 proc' = [woke EXCEPT
                            !.pc = "ended",
                            !.p = IF obeys THEN "terminated" ELSE "alive",
                            !.sent = <<"terminate">>,
                            !.out = "TaskCancelledException"]
          ELSE /\ proc.t < MaxPolls
               /\ proc' = woke
    /\ UNCHANGED <<tmVars, besidesProcess>>

\* the sleep is over and the loop looks again.  A subprocess that ended is
\* joined and its message returned or raised; else, when the job is
\* cancelled, the subprocess is terminated, joined for the grace period and
\* killed if it is alive still (the handler joins one that is), and
\* TaskCancelledException is raised; else the caller sleeps again
Poll ==
    /\ proc.pc = "sleep"
    /\ LET woke == [proc EXCEPT !.t = @ + POLL_INTERVAL]
       IN IF proc.p # "alive"
          THEN proc' = [woke EXCEPT !.pc = "ended",
                                    !.out = IF proc.p \in {"error", "crash"}
                                            THEN "Exception" ELSE proc.p]
          ELSE IF is_cancelled(CallJob)
          THEN \E obeys \in BOOLEAN :
                 proc' = [woke EXCEPT
                            !.pc = "ended",
                            !.p = IF obeys THEN "terminated" ELSE "killed",
                            !.sent = IF obeys THEN <<"terminate">>
                                     ELSE <<"terminate", "kill">>,
                            !.t = IF obeys THEN @ ELSE @ + JOIN_TIMEOUT,
                            !.out = "TaskCancelledException"]
          ELSE /\ proc.t < MaxPolls
               /\ proc' = woke
    /\ UNCHANGED <<tmVars, besidesProcess>>

\* POST /tasks/{id}/cancel for the job of the call; the time of the first
\* one that finds the subprocess alive is written down
CancelProcessJob ==
    /\ cancel_task(CallJob)
    /\ proc' = [proc EXCEPT
                  !.signal_at = IF proc.p = "alive" /\ cancel_task_ret(CallJob)
                                   /\ @ = -1
                                THEN proc.t ELSE @]
    /\ UNCHANGED <<finish_log, reused, besidesProcess>>

\* other jobs are finished meanwhile
OtherJobFinishes ==
    /\ \E id \in TaskIds \ {CallJob} : finish_task(id)
    /\ UNCHANGED <<finish_log, reused, besidesTasks>>

\* one call of run_cancellable_process for a job: jobs are registered
\* before the call, and the record of the job stays during the call
NextProcess ==
    \/ StartTask /\ proc.pc = "idle"
    \/ RunCancellableProcess
    \/ \E how \in {"path", "None", "error", "crash"} : ProcessExits(how)
    \/ Poll
    \/ CancelProcessJob
    \/ OtherJobFinishes

(***************************************************************************)
(* Two cache_file calls for one key, step by step                          *)
(***************************************************************************)
Fillers == {1, 2}

besidesFills == <<tmVars, asrVars, plVars, retry, race, proc, sweep, worker>>

IdleFill ==
    [pc |-> "idle", temp |-> [ext |-> "m4a", size |-> 1], held |-> FALSE,
     file_size |-> 0]

\* cache_file(temp, id, "s1", "audio_only") is entered with a temp file of
\* its own that exists
FillBegins(t, temp) ==
    /\ fills[t].pc = "idle"
    /\ fills' = [fills EXCEPT ![t] = [pc |-> "exists", temp |-> temp,
                                      held |-> TRUE, file_size |-> 0]]
    /\ UNCHANGED <<mcVars, besidesFills>>

\* the next system call or statement of the call: os.path.exists(target),
\* os.remove(temp) or shutil.move(temp, target), os.path.getsize(target),
\* upsert_cache_entry, _reset_expired_policy
FillStep(t) ==
    LET f == fills[t]
        target == TargetPath("s1", "audio_only", f.temp.ext)
        to(pc) == [fills EXCEPT ![t].pc = pc]
    IN /\ f.pc \notin {"idle", "done"}
       /\ fills' = CASE f.pc = "exists" ->
                          to(IF OnDisk(target) THEN "remove" ELSE "move")
                     [] f.pc \in {"remove", "move"} ->
                          [fills EXCEPT ![t].pc = "getsize", ![t].held = FALSE]
                     [] f.pc = "getsize" ->
                          [fills EXCEPT ![t].pc = "upsert",
                                        ![t].file_size = IF OnDisk(target)
                                                         THEN files[target] ELSE 0]
                     [] f.pc = "upsert" -> to("reset")
                     [] f.pc = "reset" -> to("done")
       /\ files' = IF f.pc = "move" THEN Put(files, target, f.temp.size)
                   ELSE files
       /\ entries' = IF f.pc = "upsert"
                     THEN upsert_cache_entry("s1", "audio_only", target, f.file_size)
                     ELSE entries
       /\ video_meta' = IF f.pc = "reset" THEN reset_expired_policy("s1")
                        ELSE video_meta
       /\ UNCHANGED <<now, retention, capacity, mc_call, besidesFills>>

NextFill ==
    \/ \E t \in Fillers, temp \in TempFiles : FillBegins(t, temp)
    \/ \E t \in Fillers : FillStep(t)

(***************************************************************************)
(* A full run_gc in a pool thread beside cache_file                        *)
(* (app/server.py periodic_gc, app/services/media_cache.py run_gc)         *)
(***************************************************************************)
besidesSweep == <<tmVars, asrVars, plVars, retry, race, proc, worker>>

IdleSweep == [pc |-> "idle", valid_paths |-> {}, listing |-> {}]

\* periodic_gc hands run_gc() to the thread pool
SweepBegins ==
    /\ sweep.pc \in {"idle", "done"}
    /\ sweep' = [IdleSweep EXCEPT !.pc = "expired"]
    /\ UNCHANGED <<mcVars, fills, besidesSweep>>

\* the next part of run_gc(None): pass 1; the SELECT of the orphan pass;
\* os.listdir; the test and os.remove of one listed file, in the order the
\* listing gives; pass 3
SweepStep ==
    LET here == [e |-> entries, f |-> files]
        to(pc) == [sweep EXCEPT !.pc = pc]
    IN /\ sweep.pc \notin {"idle", "done"}
       /\ \E order \in EvictOrders(entries), p \in sweep.listing \cup {NoPath} :
            LET next ==
                  CASE sweep.pc = "expired" ->
                         [s |-> ExpiredPass(TRUE, {}), g |-> to("select")]
                    [] sweep.pc = "select" ->
                         [s |-> here,
                          g |-> [sweep EXCEPT !.pc = "listdir",
                                              !.valid_paths = PathsOf(entries)]]
                    [] sweep.pc = "listdir" ->
                         [s |-> here,
                          g |-> [sweep EXCEPT !.pc = "remove",
                                              !.listing = DOMAIN files]]
                    [] sweep.pc = "remove" /\ sweep.listing = {} ->
                         [s |-> here, g |-> to("capacity")]
                    [] sweep.pc = "remove" /\ sweep.listing # {} ->
                         [s |-> [e |-> entries,
                                 f |-> IF p \notin sweep.valid_paths
                                       THEN Pop(files, p) ELSE files],
                          g |-> [sweep EXCEPT !.listing = @ \ {p}]]
                    [] sweep.pc = "capacity" ->
                         [s |-> CapacityPass(here, order), g |-> to("done")]
            IN /\ sweep.pc = "remove" /\ sweep.listing # {} => p # NoPath
               /\ entries' = next.s.e
               /\ files' = next.s.f
               /\ sweep' = next.g
       /\ UNCHANGED <<now, video_meta, retention, capacity, mc_call, fills,
                      besidesSweep>>

\* one cache_file call on the event loop while run_gc runs in its thread,
\* under both capacity settings
NextSweep ==
    \/ \E temp \in TempFiles : FillBegins(1, temp)
    \/ FillStep(1)
    \/ SweepBegins
    \/ SweepStep
    \/ \E c \in {0, 1} : SetCapacity(c)

(***************************************************************************)
(* ASR worker: asr_worker/main.py, /transcribe and /health                 *)
(***************************************************************************)
\* _cfg.get("max_concurrency", 1)
MAX_CONCURRENCY == 1

\* /transcribe requests that may be in flight at once
WorkerRequests == {1, 2, 3, 4}

besidesWorker == <<tmVars, asrVars, mcVars, plVars, retry, race, proc, fills, sweep>>

\* _queue_depth, the value and the waiters of _gpu_semaphore, and where each
\* request is: idle, waiting in acquire, granted (its future is set, the
\* coroutine has not run yet), or running _do_transcribe
IdleWorker ==
    [queue_depth |-> 0, value |-> MAX_CONCURRENCY, waiters |-> <<>>,
     req |-> [r \in WorkerRequests |-> "idle"]]

\* what /health answers under concurrency.queue
health_queue == worker.queue_depth

\* asyncio.Semaphore.locked()
locked == worker.value = 0 \/ worker.waiters # <<>>

\* POST /transcribe up to its first suspension: _queue_depth += 1, then
\* either the semaphore is taken at once, _queue_depth -= 1 and the
\* transcription starts, or the request waits in acquire
Transcribe(r) ==
    /\ worker.req[r] = "idle"
    /\ worker' = IF locked
                 THEN [worker EXCEPT !.queue_depth = @ + 1,
                                     !.waiters = Append(@, r),
                                     !.req[r] = "waiting"]
                 ELSE [worker EXCEPT !.value = @ - 1, !.req[r] = "running"]
    /\ UNCHANGED besidesWorker

\* a granted request runs again: acquire returns, _queue_depth -= 1, the
\* transcription starts
Resume(r) ==
    /\ worker.req[r] = "granted"
    /\ worker' = [worker EXCEPT !.queue_depth = @ - 1, !.req[r] = "running"]
    /\ UNCHANGED besidesWorker

\* _do_transcribe returns or raises: the semaphore is released, which hands
\* it to the first waiter; on an exception the except clause sets
\* _queue_depth = max(0, _queue_depth - 1)
Excepted(w, failed) ==
    IF failed
    THEN [w EXCEPT !.queue_depth = IF @ - 1 > 0 THEN @ - 1 ELSE 0]
    ELSE w

TranscribeEndsFor(r, failed) ==
    /\ worker.req[r] = "running"
    /\ LET released ==
             IF worker.waiters # <<>>
             THEN [worker EXCEPT !.waiters = Tail(@),
                                 !.req[Head(worker.waiters)] = "granted",
                                 !.req[r] = "idle"]
             ELSE [worker EXCEPT !.value = @ + 1, !.req[r] = "idle"]
       IN worker' = Excepted(released, failed)
    /\ UNCHANGED besidesWorker

NextWorker ==
    \/ \E r \in WorkerRequests : Transcribe(r)
    \/ \E r \in WorkerRequests : Resume(r)
    \/ \E r \in WorkerRequests, failed \in BOOLEAN : TranscribeEndsFor(r, failed)

\* no call of the three kinds has begun
InitCalls ==
    /\ InitRetry
    /\ race = IdleRace
    /\ proc = IdleProcess
    /\ fills = [t \in Fillers |-> IdleFill]
    /\ sweep = IdleSweep
    /\ worker = IdleWorker

(***************************************************************************)
(* Lookups: find_existing_cache with and without a quality                 *)
(***************************************************************************)
\* get_best_cache_path(source, 'playback')
PlaybackPriorities == <<"best", "medium", "video", "worst", "audio_only">>

\* quality=None
NoQuality == "None"

\* quality tags of the rows of one source: two of the fixed tags and two
\* resolution tags a caller sends
LookupQualities == {"audio_only", "best", "1080p", "720p"}

PrioritiesOf(mode) ==
    IF mode = "transcription" THEN TranscriptionPriorities ELSE PlaybackPriorities

\* the answers find_existing_cache(source, quality, mode) may give
find_existing_cache_answers(source, quality, mode) ==
    IF quality # NoQuality
    THEN {find_existing_cache(source, quality)}
    ELSE {hit.path : hit \in get_best_cache_path(source, PrioritiesOf(mode))}

FindExistingCache(source, quality, mode) ==
    /\ \E ret \in find_existing_cache_answers(source, quality, mode) :
         mc_call' = [op |-> "find_existing_cache", source |-> source,
                     quality |-> quality, mode |-> mode, ret |-> ret]
    /\ UNCHANGED <<now, entries, files, video_meta, retention, capacity,
                   besidesCache>>

\* the rows of one source under caching with several quality tags, files
\* deleted outside, and lookups
NextLookup ==
    \/ \E q \in LookupQualities : CacheFile([ext |-> "m4a", size |-> 1], "s1", q)
    \/ ExternalDelete
    \/ Tick
    \/ \E q \in LookupQualities \cup {NoQuality},
          mode \in {"playback", "transcription"} :
         FindExistingCache("s1", q, mode)

(***************************************************************************)
(* Specifications                                                          *)
(***************************************************************************)
InitRegistry == InitTasks /\ FreshASR /\ InitCache /\ InitPipeline /\ InitCalls

InitRouting == InitTasks /\ InitASR /\ InitCache /\ InitPipeline /\ InitCalls

InitStore == InitTasks /\ FreshASR /\ InitCache /\ InitPipeline /\ InitCalls

InitGC ==
    /\ InitTasks
    /\ FreshASR
    /\ InitCacheAt((MaxDay - 1) * HoursPerDay + ClockHours[2])
    /\ InitPipeline
    /\ InitCalls

SpecTasks == InitRegistry /\ [][NextTasks]_vars

SpecHistory == InitRegistry /\ [][NextHistory]_vars

SpecASR == InitRouting /\ [][NextASR]_vars

SpecStore == InitStore /\ [][NextStore]_vars

SpecExpiry == InitStore /\ [][NextExpiry]_vars

SpecGC == InitGC /\ [][NextGC]_vars

SpecPipeline == InitStore /\ [][NextPipeline]_vars

SpecRun == InitStore /\ [][NextRun]_vars

SpecRetry == InitStore /\ [][NextRetry]_vars

SpecRace == InitRegistry /\ [][NextRace]_vars

\* the monitor and the caller are tasks of the event loop: the monitor wakes
\* up after every sleep, the caller when a task it waits for is done
SpecRaceFair ==
    InitRegistry /\ [][NextRace]_vars /\ WF_vars(MonitorPolls) /\ WF_vars(WaitReturns)

SpecProcess == InitRegistry /\ [][NextProcess]_vars

SpecFill == InitStore /\ [][NextFill]_vars

SpecLookup == InitGC /\ [][NextLookup]_vars

SpecSweep == InitStore /\ [][NextSweep]_vars

SpecWorker == InitRegistry /\ [][NextWorker]_vars


(***************************************************************************)
(* Claims about the Task Registry                                          *)
(***************************************************************************)

\* C1 (as stated): once a job's cancellation signal is set (cancel_task
\* returned True), is_cancelled(id) stays true and check_cancel(id) raises
\* after every later registry operation.
C1_CancelSticks ==
    [][\A id \in TaskIds : is_cancelled(id) => is_cancelled(id)']_vars

\* C2 (as stated): once finish_task has taken effect for MAX_HISTORY+1
\* distinct ids, get_task_status of the first finished id is not found.
C2_FirstFinishedGone ==
    Len(finish_log) >= MAX_HISTORY + 1
        => get_task_status(finish_log[1]) = NotFound

\* C2 (amended): the finished-id FIFO never holds more than MAX_HISTORY ids;
\* a finish_task that overflows it evicts exactly the id at its head together
\* with that id's whole record; and once MAX_HISTORY+1 distinct ids have been
\* finished, with no finished id registered again and no remove_task on an
\* id of the FIFO, the first finished id is not found.
C2_HistoryBound ==
    /\ [](Len(finished_ids) <= MAX_HISTORY)
    /\ []((~reused /\ Len(finish_log) >= MAX_HISTORY + 1)
            => get_task_status(finish_log[1]) = NotFound)
    /\ [][\A id \in TaskIds :
            (LoggedFinish(id) /\ Registered(id)) =>
                LET f == Append(finished_ids, id)
                IN IF Len(f) > MAX_HISTORY
                   THEN /\ finished_ids' = Tail(f)
                        /\ DOMAIN tasks' = (DOMAIN tasks) \ {Head(f)}
                   ELSE /\ finished_ids' = f
                        /\ DOMAIN tasks' = DOMAIN tasks]_vars

\* C2 witness: MAX_HISTORY+1 distinct ids were finished, each registered
\* once, the FIFO is full and the first finished id has no record.
C2_Witness ==
    /\ ~reused
    /\ Len(finish_log) = MAX_HISTORY + 1
    /\ Len(finished_ids) = MAX_HISTORY
    /\ ~Registered(finish_log[1])


(***************************************************************************)
(* Claims about the ASR routing client                                     *)
(***************************************************************************)
\* an engine the priority scan may return: available, and not disabled
\* unless it is the pinned active engine
Eligible(e) ==
    /\ Avail(e)
    /\ (e \notin asr_config.disabled_engines \/ e = asr_config.active_engine)

EligibleAt == {i \in 1 .. Len(asr_config.priority) :
                 Eligible(asr_config.priority[i])}

ActiveUp == asr_config.active_engine # NoEngine /\ Avail(asr_config.active_engine)

\* C3: with no caller override and strict mode off, select_worker returns
\* the first engine of the priority list that is available and not disabled
\* (a disabled engine is eligible when it is the pinned active engine), and
\* it raises "no available engine" only when the list holds no such engine
\* and the pinned active engine is unavailable.
C3_PriorityFallback ==
    (asr_call # NoCall /\ asr_call.pref = NoEngine /\ ~asr_config.strict_mode)
    => /\ EligibleAt # {} =>
            \E i \in EligibleAt :
                /\ \A j \in EligibleAt : i <= j
                /\ asr_call.result = asr_config.priority[i]
       /\ asr_call.result \notin {ErrOffline, ErrStrict}
       /\ asr_call.result = ErrNoEngine => (EligibleAt = {} /\ ~ActiveUp)

\* C3 witness: priority [A(down), B(up), C(up)], nothing disabled, strict
\* mode off, and the call returned B.
C3_Witness ==
    /\ asr_call # NoCall /\ asr_call.pref = NoEngine
    /\ ~asr_config.strict_mode
    /\ asr_config.disabled_engines = {}
    /\ Len(asr_config.priority) >= 3
    /\ ~Avail(asr_config.priority[1])
    /\ Avail(asr_config.priority[2])
    /\ Avail(asr_config.priority[3])
    /\ asr_call.result = asr_config.priority[2]

\* C4: with strict mode on, an active engine pinned and no caller override,
\* select_worker returns the active engine if it is available and raises
\* otherwise; it never returns another engine.
C4_StrictMode ==
    (/\ asr_call # NoCall /\ asr_call.pref = NoEngine
     /\ asr_config.strict_mode /\ asr_config.active_engine # NoEngine)
    => IF Avail(asr_config.active_engine)
       THEN asr_call.result = asr_config.active_engine
       ELSE asr_call.result = ErrStrict

\* C4 witness: strict mode on, the active engine is down, another engine of
\* the priority list is available and not disabled, and the call raised.
C4_Witness ==
    /\ asr_call # NoCall /\ asr_call.pref = NoEngine
    /\ asr_config.strict_mode
    /\ asr_config.active_engine # NoEngine
    /\ ~Avail(asr_config.active_engine)
    /\ EligibleAt # {}
    /\ asr_call.result = ErrStrict

(***************************************************************************)
(* Claims about the media cache                                            *)
(***************************************************************************)
\* C5 (as stated): when cache_file is called for a (source, quality) whose
\* first artifact is cached and on disk, with another existing temp file,
\* one artifact is on disk for that (source, quality) afterwards, the temp
\* file was discarded and not moved, the call returns the path of the first
\* call, and the entry's media path and file size are those of the first call.
C5_SecondCallDiscarded ==
    (mc_call.op = "cache_file" /\ mc_call.had_file) =>
        /\ Cardinality(Artifacts(mc_call.source, mc_call.quality)) = 1
        /\ ~mc_call.temp_moved
        /\ mc_call.ret = mc_call.before.media_path
        /\ RowOf(mc_call.source, mc_call.quality).media_path
             = mc_call.before.media_path
        /\ RowOf(mc_call.source, mc_call.quality).file_size
             = mc_call.before.file_size

\* C6 (as stated): every cache entry whose source has policy custom and an
\* expiry before now is in get_gc_candidates(), and no entry whose source has
\* policy keep_forever is.
C6_ExpiredCustomListed ==
    \A k \in DOMAIN entries :
        /\ (/\ PolicyOf(k) = "custom"
            /\ video_meta[k[1]].cache_expires_at # NoExpiry
            /\ video_meta[k[1]].cache_expires_at.t < now)
           => k \in get_gc_candidates
        /\ PolicyOf(k) = "keep_forever" => k \notin get_gc_candidates

\* C7: a run_gc step, targeted or full, leaves the row of every entry whose
\* source has policy keep_forever as it was and leaves its file on disk.
C7_KeepForeverSurvivesGc ==
    [][mc_call'.op = "run_gc" =>
         \A k \in DOMAIN entries :
            PolicyOf(k) = "keep_forever" =>
                /\ k \in DOMAIN entries'
                /\ entries'[k] = entries[k]
                /\ OnDisk(entries[k].media_path) =>
                     /\ entries[k].media_path \in DOMAIN files'
                     /\ files'[entries[k].media_path]
                          = files[entries[k].media_path]]_vars

\* C7 witness: one full run deleted an orphan file and an entry over the
\* budget, and a keep_forever entry older than every evicted one is still
\* cached and on disk.
C7_Witness ==
    /\ mc_call.op = "run_gc"
    /\ mc_call.over
    /\ mc_call.orphans # {}
    /\ mc_call.evicted # {}
    /\ \E k \in DOMAIN entries :
         /\ PolicyOf(k) = "keep_forever"
         /\ OnDisk(entries[k].media_path)
         /\ \A r \in mc_call.evicted : entries[k].cached_at.t < r.cached_at.t

\* C8: after a full run_gc that found the recorded total above the budget,
\* no entry the capacity pass could evict and kept is older than one it
\* evicted, and the recorded total is at most the budget unless no evictable
\* entry is left.
C8_OldestFirstUntilBudget ==
    (mc_call.op = "run_gc" /\ mc_call.over) =>
        /\ \A r \in mc_call.evicted : \A k \in Evictable(entries) :
               r.cached_at.t <= entries[k].cached_at.t
        /\ TotalSize(entries) <= capacity \/ Evictable(entries) = {}

\* C8 witness: the capacity pass evicted an entry, kept a younger evictable
\* one, and the recorded total is within the budget.
C8_Witness ==
    /\ mc_call.op = "run_gc"
    /\ mc_call.over
    /\ mc_call.evicted # {}
    /\ TotalSize(entries) <= capacity
    /\ \E k \in Evictable(entries) :
         \A r \in mc_call.evicted : r.cached_at.t < entries[k].cached_at.t

\* C9: scan_integrity reports under db_orphans every entry whose file is not
\* on disk; after a sync_integrity that follows the scan, the reported rows
\* are gone, find_existing_cache answers nothing for their (source, quality),
\* and no row is left whose file is missing.
C9_IntegritySync ==
    /\ mc_call.op = "scan_integrity" =>
         \A k \in DOMAIN entries :
            ~OnDisk(entries[k].media_path) => k \in mc_call.db_orphans
    /\ mc_call.op = "sync_integrity" =>
         /\ \A k \in mc_call.reported :
               /\ k \notin DOMAIN entries
               /\ find_existing_cache(k[1], k[2]) = NoPath
         /\ \A k \in DOMAIN entries : OnDisk(entries[k].media_path)

\* C9 witness: sync_integrity(False) ran right after a scan that reported an
\* entry, and the reported rows are gone.
C9_Witness ==
    /\ mc_call.op = "sync_integrity"
    /\ ~mc_call.delete_orphans
    /\ mc_call.reported # {}
    /\ mc_call.db_cleaned = Cardinality(mc_call.reported)
    /\ \A k \in mc_call.reported : k \notin DOMAIN entries

(***************************************************************************)
(* C10: a first run that downloads caches the media; the next run reuses it *)
(***************************************************************************)
\* run i began on an empty cache before any other run had ended, downloaded
\* the media, ran ASR on the download and ended with the ASR text while the
\* global policy was keep_days
FirstRun(i) ==
    /\ pl[i].pc = "done"
    /\ pl[i].began_after = {}
    /\ ~pl[i].from_cache
    /\ pl[i].downloaded
    /\ pl[i].audio_path.kind = "temp"
    /\ pl[i].text = "asr"
    /\ pl[i].policy = "keep_days"

\* C10: with no cache at the start and the global policy keep_days, a first
\* run for a source that downloads the media and gets the text from ASR ends
\* completed with the media cached under quality audio_only (and cached it
\* stays until a later run has ended); a run for the same source that
\* begins after it takes the cached file at the cache check
\* and never calls the downloader, so that once it has ended the downloader
\* was called exactly once in the two runs.
C10_DownloadOnce ==
    \A i \in JobIds :
        FirstRun(i) =>
            /\ pl[i].status = "completed"
            /\ (\A j \in JobIds : i \in pl[j].began_after => pl[j].pc # "done") =>
                  find_existing_cache(SourceOf(i), "audio_only") # NoPath
            /\ \A j \in JobIds :
                  i \in pl[j].began_after =>
                      /\ pl[j].from_cache
                      /\ ~pl[j].downloaded
                      /\ pl[j].pc = "done" => downloads = 1

\* both runs have ended: the first downloaded and cached, the second began
\* after it, used the cached file, and got the text from ASR
C10_Witness ==
    /\ FirstRun(1)
    /\ 1 \in pl[2].began_after
    /\ pl[2].pc = "done"
    /\ pl[2].from_cache
    /\ pl[2].status = "completed"
    /\ pl[2].text = "asr"
    /\ downloads = 1


(***************************************************************************)
(* C11: what a cache hit skips                                             *)
(***************************************************************************)
\* C11 as stated: in the second of two consecutive runs for a source, the
\* one that finds the media cached by the first, the ASR call is never
\* issued.
C11_NoAsrOnHit ==
    \A i, j \in JobIds :
        FirstRun(i) /\ i \in pl[j].began_after => pl[j].pc # "asr"

\* C11, amended: a run that takes the cached file at the cache check skips
\* the subtitle hook and the download but not ASR; it goes on to vocal
\* separation or ASR with the cached file, and it ends completed only with
\* the text ASR returned for that file.
C11_AsrOnCachedFile ==
    \A j \in JobIds :
        pl[j].from_cache =>
            /\ ~pl[j].downloaded
            /\ pl[j].pc \in {"uvr", "asr", "done"}
            /\ pl[j].pc = "done" /\ pl[j].status = "completed" =>
                  pl[j].text = "asr" /\ ~pl[j].is_subtitle
            /\ pl[j].pc = "done" /\ pl[j].text # "asr" =>
                  pl[j].status \in {"failed", "cancelled"}

\* the second run waits for ASR on the file the first run cached
C11_Witness ==
    /\ FirstRun(1)
    /\ 1 \in pl[2].began_after
    /\ pl[2].from_cache
    /\ pl[2].audio_path.kind = "cache"
    /\ pl[2].pc = "asr"
    /\ downloads = 1


(***************************************************************************)
(* C12: terminal statuses of a run                                         *)
(***************************************************************************)
\* C12: once the status of a run's row is completed, failed or cancelled,
\* no later step of the run changes it, and the run enters neither the
\* download nor the ASR stage afterwards.
C12_TerminalAbsorbing ==
    [][\A j \in JobIds :
          pl[j].status \in {"completed", "failed", "cancelled"} =>
              /\ pl'[j].status = pl[j].status
              /\ pl'[j].pc \notin {"download", "transfer", "asr"}]_vars

(***************************************************************************)
(* C13: the subtitle short-circuit                                         *)
(***************************************************************************)
\* C13: a run whose hook returned a subtitle keeps the subtitle as its
\* text, is tagged as subtitle-sourced and completed, and never calls the
\* downloader or ASR, whatever the auto-analysis handoff does.
C13_SubtitleEndsRun ==
    \A j \in JobIds :
        pl[j].is_subtitle =>
            /\ pl[j].status = "completed"
            /\ pl[j].text = "Subtitle"
            /\ ~pl[j].downloaded
            /\ pl[j].pc \in {"hook_analysis", "done"}

(***************************************************************************)
(* C14: cancellation seen at a checkpoint                                  *)
(***************************************************************************)
\* C14: when a checkpoint of the run has seen the cancellation (in the
\* downloader, after the download, during vocal separation, before or
\* during ASR), the run has ended with status cancelled and the text
\* 'Task Cancelled', and its files are gone from the temp directories;
\* this also when the same stage raised another error.
C14_CancelSeen ==
    \A j \in JobIds :
        pl[j].observed # {} =>
            /\ pl[j].pc = "done"
            /\ pl[j].status = "cancelled"
            /\ pl[j].text = "Task Cancelled"
            /\ pl[j].temps = {}

C16_NoCallAfterCancel ==
    [][\A j \in JobIds :
          Cancelled(<<tasks, finished_ids>>, j) =>
              /\ pl[j].pc # "download" => pl'[j].pc # "download"
              /\ pl[j].pc # "asr" => pl'[j].pc # "asr"]_vars

\* C16, amended: when the cancellation was requested before, the downloader
\* is still called, but a downloader that transfers media looks at the
\* signal first and starts no transfer; and no ASR call is issued.
C16_NoWorkAfterCancel ==
    [][\A j \in JobIds :
          Cancelled(<<tasks, finished_ids>>, j) =>
              /\ pl[j].pc # "transfer" => pl'[j].pc # "transfer"
              /\ pl[j].pc # "asr" => pl'[j].pc # "asr"]_vars

\* the downloader was called with the cancellation pending, saw it and
\* the run ended without a transfer
C16_Witness ==
    /\ pl[1].downloaded
    /\ pl[1].opts.has_hook
    /\ pl[1].observed = {"download"}
    /\ pl[1].temps = {}
    /\ pl[1].audio_path.kind = "none"
    /\ pl[1].status = "cancelled"

(***************************************************************************)
(* C19: only-get-subtitles                                                 *)
(***************************************************************************)
\* C19: a run in only-get-subtitles mode that got no subtitle from the hook
\* never calls the downloader, never reaches vocal separation or ASR, and
\* ends failed.
C19_SubtitlesOnlyFails ==
    \A j \in JobIds :
        pl[j].opts.only_get_subtitles /\ ~pl[j].is_subtitle =>
            /\ ~pl[j].downloaded
            /\ pl[j].pc \in {"hook", "done"}
            /\ pl[j].pc = "done" => pl[j].status = "failed" /\ pl[j].text = "Error"

\* the hook returned nothing and the run failed
C19_Witness ==
    /\ pl[1].opts.only_get_subtitles
    /\ pl[1].opts.has_hook
    /\ ~pl[1].is_subtitle
    /\ pl[1].pc = "done"
    /\ pl[1].status = "failed"
    /\ pl[1].errors = {"subtitles_only"}


C17_CancelTask ==
    [][\A id \in TaskIds :
          cancel_task(id) =>
              IF id \in DOMAIN tasks
              THEN /\ cancel_task_ret(id)
                   /\ DOMAIN tasks' = DOMAIN tasks
                   /\ tasks'[id].cancel_event
                   /\ tasks'[id].status = "cancelling"
                   /\ tasks'[id].progress = tasks[id].progress
                   /\ \A o \in DOMAIN tasks \ {id} : tasks'[o] = tasks[o]
                   /\ finished_ids' = finished_ids
              ELSE /\ ~cancel_task_ret(id)
                   /\ tasks' = tasks
                   /\ finished_ids' = finished_ids]_vars

\* C17 witness: one job was signalled, another registered job was not, and
\* a third id has no record.
C17_Witness ==
    \E a, b, c \in TaskIds :
        /\ a \in DOMAIN tasks /\ tasks[a].cancel_event
        /\ tasks[a].status = "cancelling"
        /\ b \in DOMAIN tasks /\ ~tasks[b].cancel_event
        /\ tasks[b].status = "processing"
        /\ c \notin DOMAIN tasks


(***************************************************************************)
(* C20: retry_on_network_error                                             *)
(***************************************************************************)
\* C20: a call under retry_on_network_error makes at most MAX_RETRIES
\* attempts; every attempt but the last one made ended in an error
\* classified as a network error and not as a cancellation; after a
\* cancellation error the call has raised, after an error that is neither
\* the call has returned None, both without another attempt; the sleeps
\* before the retries double from RETRY_DELAY.
C20_RetryOnNetworkOnly ==
    LET n == Len(retry.errors)
    IN /\ n <= MAX_RETRIES
       /\ \A i \in 1 .. n - 1 :
             is_network(retry.errors[i]) /\ ~check_and_reraise_cancel(retry.errors[i])
       /\ n > 0 /\ check_and_reraise_cancel(retry.errors[n]) =>
             retry.ended = "raised"
       /\ n > 0 /\ ~check_and_reraise_cancel(retry.errors[n])
                /\ ~is_network(retry.errors[n]) =>
             retry.ended = "returned None"
       /\ retry.ended = "raised" =>
             n > 0 /\ check_and_reraise_cancel(retry.errors[n])
       /\ n = MAX_RETRIES => retry.ended # "running"
       /\ retry.ended = "running" => retry.slept = RETRY_DELAY * ((2 ^ n) - 1)

\* C20 witness: two network errors, then the third attempt raised a
\* cancellation, which was re-raised
C20_Witness ==
    /\ Len(retry.errors) = MAX_RETRIES
    /\ retry.errors[MAX_RETRIES].type = "TaskCancelledException"
    /\ retry.ended = "raised"
    /\ retry.slept = RETRY_DELAY + 2 * RETRY_DELAY


(***************************************************************************)
(* C21, C22, C23: the files of a run at cleanup                            *)
(***************************************************************************)
\* C21: no step of a run that took its audio from the cache (the cache
\* check included) changes a file of the cache directory or the path a
\* cache row points to, so the cached file is at its path when the run
\* ends.
C21_HitUntouched ==
    [][\A j \in JobIds :
          (pl'[j] # pl[j] /\ pl'[j].from_cache) =>
              /\ files' = files
              /\ pl'[j].hit \in DOMAIN files'
              /\ \A k \in DOMAIN entries :
                    /\ k \in DOMAIN entries'
                    /\ entries'[k].media_path = entries[k].media_path]_vars

\* the downloader of run j handed back a file
Fetched(j) ==
    /\ pl[j].downloaded
    /\ ~pl[j].from_cache
    /\ pl[j].audio_path.kind \in {"temp", "vocals", "removed"}

\* C22: once a run that downloaded its media has ended, the download is no
\* longer in the temp directory, and it is in the cache when the policy its
\* cleanup read keeps files and nowhere when that policy is delete_after_asr.
C22_DownloadToCleanup ==
    \A j \in JobIds :
        (pl[j].pc = "done" /\ Fetched(j)) =>
            /\ "download" \notin pl[j].temps
            /\ IF pl[j].policy = "delete_after_asr"
               THEN find_existing_cache(SourceOf(j), "audio_only") = NoPath
               ELSE find_existing_cache(SourceOf(j), "audio_only") # NoPath

\* C23: a run that has ended holds no vocal track in the temp directory, and
\* at no time is a vocal track a file of the cache directory or the path of
\* a cache row.
C23_VocalsDeleted ==
    /\ \A j \in JobIds : pl[j].pc = "done" => "vocals" \notin pl[j].temps
    /\ \A p \in (DOMAIN files) \cup PathsOf(entries) : p[3] # VocalTrack.ext

\* C23 witness: a run under a keep policy that was cancelled after the
\* vocals were separated from its download has ended
C23_Witness ==
    /\ pl[1].pc = "done"
    /\ pl[1].audio_path.kind = "vocals"
    /\ pl[1].downloaded
    /\ pl[1].status = "cancelled"
    /\ pl[1].policy = "keep_days"


(***************************************************************************)
(* C24: progress of a run                                                  *)
(***************************************************************************)
\* C24: while a run is in flight, no step lowers the progress stored in its
\* registry record.
C24_ProgressMonotone ==
    [][\A j \in JobIds :
          (pl[j].pc \notin {"idle", "done"}
             /\ j \in DOMAIN tasks /\ j \in DOMAIN tasks') =>
              tasks'[j].progress >= tasks[j].progress]_vars


C30_TargetedGc ==
    [][(mc_call'.op = "run_gc" /\ ~mc_call'.full) =>
          LET del == {k \in get_gc_candidates : k[1] \in mc_call'.targets}
          IN /\ DOMAIN entries' = (DOMAIN entries) \ del
             /\ \A k \in DOMAIN entries' : entries'[k] = entries[k]
             /\ DOMAIN files' = (DOMAIN files) \ {entries[k].media_path : k \in del}
             /\ \A p \in DOMAIN files' : files'[p] = files[p]
             /\ video_meta' = video_meta]_vars

\* C30 witness: a call with a target set has deleted a row of its target
\* while a candidate of another source and a file no row points to are
\* still there
C30_Witness ==
    /\ mc_call.op = "run_gc"
    /\ ~mc_call.full
    /\ mc_call.expired # {}
    /\ \E k \in get_gc_candidates : k[1] \notin mc_call.targets
    /\ OnDisk(StrayPath)


(***************************************************************************)
(* C25, C28: the race of the ASR call against the cancellation poll        *)
(***************************************************************************)
\* C25: when _run_asr_with_cancel has ended: if the monitor saw the signal
\* before the transcription was done, no transcription is in flight and
\* TaskCancelledException was raised; otherwise the text was returned or the
\* error of the transcription raised, and the monitor was cancelled.
C25_RaceOutcome ==
    race.pc = "returned" =>
        IF race.first = "monitor"
        THEN /\ race.out = "TaskCancelledException"
             /\ race.transcribe # "running"
        ELSE /\ race.out \in {"text", "error"}
             /\ race.out = race.transcribe
             /\ race.monitor = "cancelled"

\* C28: the monitor returns only at a poll that finds the signal set
C28_ReturnsOnSignal ==
    [][(race.monitor = "polling" /\ race'.monitor = "returned") =>
          is_cancelled(CallJob)]_vars

\* C28: once the signal of the job is set while the monitor polls, the
\* monitor comes to an end.
C28_CancelWakesWaiter ==
    (race.monitor = "polling" /\ is_cancelled(CallJob)) ~> (race.monitor # "polling")


(***************************************************************************)
(* C26: cancellation of the vocal-isolation subprocess                     *)
(***************************************************************************)
\* C26 as stated: when the job was cancelled while the subprocess ran, the
\* call has ended with terminate sent and TaskCancelledException raised no
\* later than one polling interval after the signal; and when the call has
\* ended the subprocess is not alive.
C26_CancelEndsProcess ==
    proc.pc = "ended" =>
        /\ proc.p # "alive"
        /\ proc.signal_at >= 0 =>
              /\ proc.out = "TaskCancelledException"
              /\ proc.sent # <<>>
              /\ proc.t - proc.signal_at <= POLL_INTERVAL

\* C26, amended: when the call has ended the subprocess is not alive.  It
\* raised TaskCancelledException exactly when a poll found the signal set
\* with the subprocess alive: then terminate was sent, and kill after the
\* grace period to a subprocess that did not end, and the exception was
\* raised no later than one polling interval after the signal, plus the
\* grace period when it was used.  A subprocess that ended by itself before
\* that poll had its message returned or raised instead.
C26_CancelSeenAtPoll ==
    proc.pc = "ended" =>
        /\ proc.p # "alive"
        /\ IF proc.p \in {"terminated", "killed"}
           THEN /\ proc.out = "TaskCancelledException"
                /\ proc.signal_at >= 0
                /\ proc.sent = IF proc.p = "killed" THEN <<"terminate", "kill">>
                               ELSE <<"terminate">>
                /\ proc.t - proc.signal_at <=
                     POLL_INTERVAL + (IF proc.p = "killed" THEN JOIN_TIMEOUT ELSE 0)
           ELSE /\ proc.sent = <<>>
                /\ proc.out = IF proc.p \in {"error", "crash"} THEN "Exception"
                              ELSE proc.p

\* C26 witness: a subprocess that did not end on terminate was killed after
\* the grace period, and the call raised one polling interval plus the grace
\* period after the signal
C26_Witness ==
    /\ proc.pc = "ended"
    /\ proc.p = "killed"
    /\ proc.out = "TaskCancelledException"
    /\ proc.t - proc.signal_at = POLL_INTERVAL + JOIN_TIMEOUT


(***************************************************************************)
(* C27: two cache_file calls for one key                                   *)
(***************************************************************************)
\* C27: when two cache_file calls for the same source and quality have
\* ended, one file named after the key is in the cache directory, the row of
\* the key points to it, and neither call holds its temp file.
C27_OneArtifact ==
    (\A t \in Fillers : fills[t].pc = "done") =>
        /\ Cardinality(Artifacts("s1", "audio_only")) = 1
        /\ find_existing_cache("s1", "audio_only") # NoPath
        /\ \A t \in Fillers : ~fills[t].held

\* the same for two temp files of one extension
C27_SameExtension ==
    (/\ \A t \in Fillers : fills[t].pc = "done"
     /\ fills[1].temp.ext = fills[2].temp.ext) =>
        /\ Cardinality(Artifacts("s1", "audio_only")) = 1
        /\ find_existing_cache("s1", "audio_only") # NoPath
        /\ \A t \in Fillers : ~fills[t].held

(***************************************************************************)
(* C31: a full run_gc leaves no file without a row                         *)
(***************************************************************************)
\* C31: after a full run_gc (no target set), nothing else writing to the
\* cache meanwhile, no file is left in the cache directory without a cache
\* row pointing to it, and every file a remaining row pointed to before the
\* run is still on disk.
C31_FullGcNoOrphans ==
    [][(mc_call'.op = "run_gc" /\ mc_call'.full) =>
         /\ (scan_integrity.fs_orphans)' = {}
         /\ \A k \in DOMAIN entries' :
               OnDisk(entries[k].media_path) => OnDisk(entries[k].media_path)']_vars

\* C31 witness: a full run_gc deleted an orphan file and left a row whose
\* file is on disk.
C31_Witness ==
    /\ mc_call.op = "run_gc"
    /\ mc_call.full
    /\ mc_call.orphans # {}
    /\ \E k \in DOMAIN entries : OnDisk(entries[k].media_path)
    /\ scan_integrity.fs_orphans = {}

(***************************************************************************)
(* C32: sync_integrity(False) and sync_integrity(True)                     *)
(***************************************************************************)
\* C32: sync_integrity deletes exactly the rows whose file is missing and
\* leaves the other rows as they are; without delete_orphans it deletes no
\* file; with delete_orphans it deletes exactly the files no row points to,
\* and a scan_integrity right after it reports neither db_orphans nor
\* fs_orphans.
C32_SyncIntegrity ==
    [][mc_call'.op = "sync_integrity" =>
         /\ DOMAIN entries' =
              {k \in DOMAIN entries : OnDisk(entries[k].media_path)}
         /\ \A k \in DOMAIN entries' : entries'[k] = entries[k]
         /\ (scan_integrity.db_orphans)' = {}
         /\ ~mc_call'.delete_orphans => files' = files
         /\ mc_call'.delete_orphans =>
              /\ DOMAIN files' = (DOMAIN files) \cap PathsOf(entries')
              /\ \A q \in DOMAIN files' : files'[q] = files[q]
              /\ (scan_integrity.fs_orphans)' = {}]_vars

\* C32 witness: sync_integrity(True) removed a row whose file was missing
\* and a file without a row, and kept a row whose file is on disk.
C32_Witness ==
    /\ mc_call.op = "sync_integrity"
    /\ mc_call.delete_orphans
    /\ mc_call.db_cleaned > 0
    /\ mc_call.fs_cleaned > 0
    /\ entries # <<>>

(***************************************************************************)
(* C33: find_existing_cache with a quality given                           *)
(***************************************************************************)
\* C33: a path find_existing_cache returns is the path of a file that is on
\* disk at the call; with a quality given the path is the one of the row of
\* exactly that (source, quality), and nothing is returned when that row is
\* missing or its file is, whatever rows of other qualities exist.
C33_ExactLookup ==
    mc_call.op = "find_existing_cache" =>
       /\ mc_call.ret # NoPath => OnDisk(mc_call.ret)
       /\ mc_call.quality # NoQuality =>
            IF /\ <<mc_call.source, mc_call.quality>> \in DOMAIN entries
               /\ entries[<<mc_call.source, mc_call.quality>>].media_path
                    \in DOMAIN files
            THEN mc_call.ret =
                   entries[<<mc_call.source, mc_call.quality>>].media_path
            ELSE mc_call.ret = NoPath

\* C33 witness: a lookup with a quality whose row has lost its file returned
\* nothing while a row of another quality of the source has its file.
C33_Witness ==
    /\ mc_call.op = "find_existing_cache"
    /\ mc_call.quality # NoQuality
    /\ <<mc_call.source, mc_call.quality>> \in DOMAIN entries
    /\ mc_call.ret = NoPath
    /\ \E k \in DOMAIN entries :
          k[1] = mc_call.source /\ OnDisk(entries[k].media_path)

(***************************************************************************)
(* C39: find_existing_cache without a quality                              *)
(***************************************************************************)
\* C39 (as stated): find_existing_cache called without a quality returns
\* nothing only if no row of the source has its file on disk.
C39_SomeLiveFileFound ==
    (/\ mc_call.op = "find_existing_cache"
     /\ mc_call.quality = NoQuality
     /\ mc_call.ret = NoPath) =>
       \A k \in DOMAIN entries :
          k[1] = mc_call.source => ~OnDisk(entries[k].media_path)

(***************************************************************************)
(* C34: eviction and jobs in flight                                        *)
(***************************************************************************)
\* C34 (as stated): a finish_task call never removes the record of another
\* job that is in flight (status processing or cancelling), also when ids
\* are started again after they finished or are finished more than once.
C34_NoEvictionInFlight ==
    [][\A id, j \in TaskIds :
          (/\ LoggedFinish(id)
           /\ j # id
           /\ Registered(j)
           /\ tasks[j].status \in {"processing", "cancelling"})
             => Registered(j)']_vars

(***************************************************************************)
(* C35: the registry status of an ended run                                *)
(***************************************************************************)
\* C35 (as stated): when a pipeline run has ended with the persisted status
\* cancelled or failed, the registry does not show the job as completed with
\* progress 100.
C35_RegistryAgrees ==
    \A j \in JobIds :
       (/\ pl[j].pc = "done"
        /\ pl[j].status \in {"cancelled", "failed"}
        /\ Registered(j))
          => ~(tasks[j].status = "completed" /\ tasks[j].progress = 100)

(***************************************************************************)
(* C36: a run cancelled while processing does not complete                 *)
(***************************************************************************)
\* C36 (as stated): a run whose cancellation signal is set (cancel_task
\* returned True) while the run is in flight and its persisted status is
\* still processing does not go on to the persisted status completed.
C36_CancelledNeverCompletes ==
    [][\A j \in JobIds :
          (/\ pl[j].pc \notin {"idle", "done"}
           /\ pl[j].status = "processing"
           /\ is_cancelled(j))
             => pl'[j].status # "completed"]_vars

(***************************************************************************)
(* C38: the status of a finished job                                       *)
(***************************************************************************)
\* C38 (as stated): once finish_task has set a record's status to completed,
\* a cancel_task or an update_progress on that id leaves the status
\* completed, and cancel_task on it does not return True.
C38_FinishedIsFinal ==
    [][\A id \in TaskIds :
          (Registered(id) /\ tasks[id].status = "completed") =>
             /\ cancel_task(id) =>
                  /\ tasks'[id].status = "completed"
                  /\ ~cancel_task_ret(id)
             /\ (\E p \in ProgressInputs : update_progress(id, p)) =>
                  tasks'[id].status = "completed"]_vars

(***************************************************************************)
(* C37: run_gc beside cache_file                                           *)
(***************************************************************************)
\* C37 (as stated): when a full run_gc and a cache_file call that ran side
\* by side have both finished, the cache row cache_file wrote refers to a
\* file that is on disk: the orphan pass has not deleted the file cache_file
\* moved into the cache directory.
C37_GcSparesNewFile ==
    (/\ sweep.pc = "done"
     /\ fills[1].pc = "done"
     /\ HasRow("s1", "audio_only")
     /\ RowOf("s1", "audio_only").media_path
          = TargetPath("s1", "audio_only", fills[1].temp.ext))
       => OnDisk(RowOf("s1", "audio_only").media_path)

(***************************************************************************)
(* C40: the queue depth of the ASR worker                                  *)
(***************************************************************************)
\* C40 (as stated): the queue depth /health reports is never negative and
\* equals the number of /transcribe requests waiting for the semaphore.
C40_QueueDepth ==
    /\ health_queue >= 0
    /\ health_queue =
         Cardinality({r \in WorkerRequests :
                        worker.req[r] \in {"waiting", "granted"}})

\* C40, the part that holds: while no transcription has failed the reported
\* depth is the number of waiting requests.
C40_DepthWithoutFailures ==
    [][(\A r \in WorkerRequests : ~TranscribeEndsFor(r, TRUE)) =>
         (C40_QueueDepth => C40_QueueDepth')]_vars

====
